---- MODULE Spec2Model ----
(***************************************************************************)
(* go-lox: the static resolver (interpreter/resolver.go), the environment  *)
(* chain (interpreter/environment.go) and the tree-walking evaluator       *)
(* (interpreter/interpreter.go), modelled over abstract syntax trees.      *)
(*                                                                         *)
(* An AST node is a record tagged by its field k.  A Go nil interface      *)
(* (an absent initializer, else-branch or return value) is the node        *)
(* [k |-> "nil"].  Variable and Assign nodes carry an id: the resolver's   *)
(* side table is keyed by node identity (map[ast.Expr]int).                *)
(***************************************************************************)
EXTENDS Integers, Sequences, FiniteSets, TLC

\* Number literals of the generated programs range over 0..MaxNum.
MaxNum == 2

\* A while loop is unrolled for at most MaxIter executions of its body.
MaxIter == 3

RECURSIVE Gcd(_, _)
RECURSIVE Descend(_, _, _, _)
RECURSIVE Source(_, _, _)
RECURSIVE Grouped(_)
RECURSIVE Resolve(_, _, _, _)
RECURSIVE DeclareParameters(_, _, _)
RECURSIVE FindMethod_SuperclassFirst(_, _)
RECURSIVE FindMethod(_, _)
RECURSIVE Depth(_, _)
RECURSIVE ancestor(_, _, _)
RECURSIVE Get(_, _, _)
RECURSIVE EnvAssign(_, _, _, _)
RECURSIVE NextToken(_)
RECURSIVE DefineParameters(_, _, _, _, _)
RECURSIVE Run(_, _, _, _, _)

EmptyMap == [x \in {} |-> x]

Max(S) == CHOOSE x \in S : \A y \in S : y <= x

-----------------------------------------------------------------------------
(* Runtime values.  A float64 is kept as the exact fraction n/d, d > 0, in *)
(* lowest terms; d = 0 stands for the IEEE results of a division by zero.  *)

Abs(x) == IF x < 0 THEN -x ELSE x

Gcd(a, b) == IF b = 0 THEN a ELSE Gcd(b, a % b)

Float(n, d) ==
    IF d = 0 THEN [t |-> "float64", n |-> IF n > 0 THEN 1 ELSE IF n < 0 THEN -1 ELSE 0, d |-> 0]
    ELSE LET g == Gcd(Abs(n), Abs(d))
             s == IF d < 0 THEN -1 ELSE 1
         IN [t |-> "float64", n |-> (s * n) \div g, d |-> (s * d) \div g]

Num(n) == Float(n, 1)

Str(s) == [t |-> "string", s |-> s]

Bool(b) == [t |-> "bool", b |-> b]

Nil == [t |-> "nil"]

-----------------------------------------------------------------------------
(* AST nodes (ast/expr.go, ast/stmt.go).                                   *)

NoNode == [k |-> "nil"]

Literal(v) == [k |-> "Literal", value |-> v]

Variable(id, name) == [k |-> "Variable", id |-> id, name |-> name]

Assign(id, name, value) == [k |-> "Assign", id |-> id, name |-> name, value |-> value]

Binary(left, op, right) == [k |-> "Binary", left |-> left, operator |-> op, right |-> right]

Logical(left, op, right) == [k |-> "Logical", left |-> left, operator |-> op, right |-> right]

Unary(op, right) == [k |-> "Unary", operator |-> op, right |-> right]

Grouping(e) == [k |-> "Grouping", expression |-> e]

Call(callee, arguments) == [k |-> "Call", callee |-> callee, arguments |-> arguments]

Comma(es) == [k |-> "Comma", expressions |-> es]

Condition(p, c, a) == [k |-> "Condition", predicate |-> p, consequent |-> c, alternative |-> a]

FunctionExpression(parameters, body) ==
    [k |-> "FunctionExpression", parameters |-> parameters, body |-> body]

ExpressionStatement(e) == [k |-> "ExpressionStatement", expression |-> e]

PrintStatement(e) == [k |-> "PrintStatement", expression |-> e]

VarStatement(name, initializer) ==
    [k |-> "VarStatement", name |-> name, initializer |-> initializer]

BlockStatement(statements) == [k |-> "BlockStatement", statements |-> statements]

IfStatement(c, t, e) ==
    [k |-> "IfStatement", condition |-> c, thenBranch |-> t, elseBranch |-> e]

WhileStatement(c, b) == [k |-> "WhileStatement", condition |-> c, body |-> b]

FunctionStatement(name, parameters, body) ==
    [k |-> "FunctionStatement", name |-> name, parameters |-> parameters, body |-> body]

ReturnStatement(value) == [k |-> "ReturnStatement", value |-> value]

GetExpression(object, name) == [k |-> "Get", object |-> object, name |-> name]

SetExpression(object, name, value) ==
    [k |-> "Set", object |-> object, name |-> name, value |-> value]

\* superclass is a Variable node, or nil; methods are FunctionStatement nodes.
ClassStatement(name, superclass, methods) ==
    [k |-> "ClassStatement", name |-> name, superclass |-> superclass, methods |-> methods]

-----------------------------------------------------------------------------
(* The resolver.  Its state r is the Resolver struct: the scope stack      *)
(* (innermost last), the function-context flag and, through its            *)
(* interpreter pointer, the side table locals.  errs is the set of errors  *)
(* the pass may end with: empty while it is running normally, and more     *)
(* than one only where the outcome depends on Go's map iteration order.    *)
(* seen records, for each reference node, the names of the scope stack     *)
(* under which it was resolved, and stopped keeps Resolver.scopes as they   *)
(* were when the error was raised, before the deferred endScope calls pop  *)
(* them; the code never reads either.  The messages are *)
(* the Go format strings, without the backquotes around %s.                *)

NewResolver(locals) ==
    [scopes |-> << >>, currentFunctionType |-> "None", locals |-> locals,
     errs |-> {}, seen |-> EmptyMap, stopped |-> << >>]

NewResolveError(token, message) == [k |-> "ResolveError", token |-> token, msg |-> message]

Panic(message) == [k |-> "panic", token |-> "", msg |-> message]

Failed(r) == r.errs # {}

Fail(r, e) == [r EXCEPT !.errs = {e}, !.stopped = r.scopes]

beginScope(r) == [r EXCEPT !.scopes = Append(@, EmptyMap)]

endScope(r) ==
    IF Len(r.scopes) = 0 THEN Fail(r, Panic("No scope to end"))
    ELSE [r EXCEPT !.scopes = SubSeq(@, 1, Len(@) - 1)]

\* The declaration replaces an entry the scope already holds.
declare_Overwrite(r, name) ==
    IF Len(r.scopes) = 0 THEN r
    ELSE [r EXCEPT !.scopes[Len(r.scopes)] =
             (name :> [initialized |-> FALSE, used |-> FALSE]) @@ @]

declare(r, name) ==
    IF Len(r.scopes) = 0 THEN r
    ELSE LET scope == r.scopes[Len(r.scopes)] IN
         IF name \in DOMAIN scope
         THEN Fail(r, NewResolveError(name, "Already a variable with this name %s in this scope."))
         ELSE [r EXCEPT !.scopes[Len(r.scopes)] =
                   (name :> [initialized |-> FALSE, used |-> FALSE]) @@ scope]

define(r, name) ==
    IF Len(r.scopes) = 0 THEN r
    ELSE [r EXCEPT !.scopes[Len(r.scopes)][name].initialized = TRUE]

\* Interpreter.resolve: locals[expr] = depth.
resolve(r, id, depth) == [r EXCEPT !.locals = (id :> depth) @@ @]

resolveLocal(r, id, name) ==
    LET hits == {i \in 1..Len(r.scopes) : name \in DOMAIN r.scopes[i]} IN
    IF hits = {} THEN r ELSE resolve(r, id, Len(r.scopes) - Max(hits))

\* Every recursive call of the pass goes through Resolve, the Go call stack.
ResolveStatement(stmt, r) == Resolve("Statement", stmt, 0, r)

ResolveExpression(expr, r) == Resolve("Expression", expr, 0, r)

\* The loops "for _, s := range stmts { if err := resolve(s); err != nil { return err } }".
ResolveStatementList(stmts, i, r) == Resolve("StatementList", stmts, i, r)

ResolveExpressionList(exprs, i, r) == Resolve("ExpressionList", exprs, i, r)

ResolveMethods(methods, i, r) == Resolve("MethodList", methods, i, r)

ScopeNames(r) == [i \in 1..Len(r.scopes) |-> DOMAIN r.scopes[i]]

\* The reference id to name, and the scope stack it is resolved under.
Saw(r, id, name) == [r EXCEPT !.seen = (id :> [name |-> name, scopes |-> ScopeNames(r)]) @@ @]

VisitVariableExpressionR(expr, r) ==
    LET n == Len(r.scopes) IN
    IF n = 0 THEN resolveLocal(Saw(r, expr.id, expr.name), expr.id, expr.name)
    ELSE IF expr.name \notin DOMAIN r.scopes[n] THEN Saw(r, expr.id, expr.name)
    ELSE IF ~r.scopes[n][expr.name].initialized
         THEN Fail(r, NewResolveError(expr.name, "Can't read local variable in its own initializer."))
    ELSE resolveLocal([Saw(r, expr.id, expr.name) EXCEPT !.scopes[n][expr.name].used = TRUE],
                      expr.id, expr.name)

VisitAssignExpressionR(expr, r) ==
    LET r1 == ResolveExpression(expr.value, r) IN
    IF Failed(r1) THEN r1 ELSE resolveLocal(Saw(r1, expr.id, expr.name), expr.id, expr.name)

VisitBinaryExpressionR(expr, r) ==
    LET r1 == ResolveExpression(expr.left, r) IN
    IF Failed(r1) THEN r1 ELSE ResolveExpression(expr.right, r1)

VisitLogicalExpressionR(expr, r) ==
    LET r1 == ResolveExpression(expr.left, r) IN
    IF Failed(r1) THEN r1 ELSE ResolveExpression(expr.right, r1)

VisitCallExpressionR(expr, r) ==
    LET r1 == ResolveExpression(expr.callee, r) IN
    IF Failed(r1) THEN r1 ELSE ResolveExpressionList(expr.arguments, 1, r1)

\* The name is defined before its initializer is resolved.
VisitVarStatementR_DefineFirst(stmt, r) ==
    LET r1 == declare(r, stmt.name)
        r2 == IF Failed(r1) THEN r1 ELSE define(r1, stmt.name)
    IN IF Failed(r2) \/ stmt.initializer.k = "nil" THEN r2
       ELSE ResolveExpression(stmt.initializer, r2)

VisitVarStatementR(stmt, r) ==
    LET r1 == declare(r, stmt.name)
        r2 == IF stmt.initializer.k # "nil" THEN ResolveExpression(stmt.initializer, r1) ELSE r1
    IN IF Failed(r1) THEN r1
       ELSE IF Failed(r2) THEN r2
       ELSE define(r2, stmt.name)

\* The closing check of a block resolved in function context.  The Go loop
\* ranges over the block scope's map, so any offending name may be reported.
BlockCheckErrors(parametersScope, blockScope) ==
    {NewResolveError(name, "Local variable %s conflicts with parameter.") :
        name \in DOMAIN blockScope \cap DOMAIN parametersScope}
    \cup
    {NewResolveError(name, "Local variable %s is declared but never used.") :
        name \in {m \in DOMAIN blockScope \ DOMAIN parametersScope : ~blockScope[m].used}}

VisitBlockStatementR(stmt, r) ==
    LET r1 == beginScope(r)
        r2 == ResolveStatementList(stmt.statements, 1, r1)
    IN IF Failed(r2) THEN endScope(r2)
       ELSE IF r2.currentFunctionType = "Function"
            THEN LET n == Len(r2.scopes) IN
                 endScope([r2 EXCEPT !.errs = BlockCheckErrors(r2.scopes[n - 1], r2.scopes[n]),
                                     !.stopped = r2.scopes])
            ELSE endScope(r2)

VisitIfStatementR(stmt, r) ==
    LET r1 == ResolveExpression(stmt.condition, r)
        r2 == ResolveStatement(stmt.thenBranch, r1)
    IN IF Failed(r1) THEN r1
       ELSE IF Failed(r2) THEN r2
       ELSE IF stmt.elseBranch.k # "nil" THEN ResolveStatement(stmt.elseBranch, r2)
       ELSE r2

VisitWhileStatementR(stmt, r) ==
    LET r1 == ResolveExpression(stmt.condition, r) IN
    IF Failed(r1) THEN r1 ELSE ResolveStatement(stmt.body, r1)

DeclareParameters(parameters, i, r) ==
    IF i > Len(parameters) \/ Failed(r) THEN r
    ELSE LET r1 == declare(r, parameters[i]) IN
         DeclareParameters(parameters, i + 1, IF Failed(r1) THEN r1 ELSE define(r1, parameters[i]))

\* The deferred function pops the scope but leaves currentFunctionType set.
resolveFunction_NoRestore(parameters, body, functionType, r) ==
    LET r1 == beginScope([r EXCEPT !.currentFunctionType = functionType])
        r2 == DeclareParameters(parameters, 1, r1)
        r3 == IF Failed(r2) THEN r2 ELSE ResolveStatement(body, r2)
    IN IF Failed(r3) THEN [r3 EXCEPT !.scopes = SubSeq(@, 1, Len(@) - 1)] ELSE endScope(r3)

resolveFunction(parameters, body, functionType, r) ==
    LET enclosingFunctionType == r.currentFunctionType
        r1 == beginScope([r EXCEPT !.currentFunctionType = functionType])
        r2 == DeclareParameters(parameters, 1, r1)
        r3 == IF Failed(r2) THEN r2 ELSE ResolveStatement(body, r2)
        r4 == [r3 EXCEPT !.currentFunctionType = enclosingFunctionType]
    IN IF Failed(r4) THEN [r4 EXCEPT !.scopes = SubSeq(@, 1, Len(@) - 1)] ELSE endScope(r4)

VisitFunctionStatementR(stmt, r) ==
    LET r1 == declare(r, stmt.name) IN
    IF Failed(r1) THEN r1
    ELSE resolveFunction(stmt.parameters, stmt.body, "Function", define(r1, stmt.name))

VisitReturnStatementR(stmt, r) ==
    IF r.currentFunctionType = "None"
    THEN Fail(r, NewResolveError("return", "Can't return from top-level code."))
    ELSE IF stmt.value.k # "nil" THEN ResolveExpression(stmt.value, r)
    ELSE r

\* The class visitor: the name is declared and defined, a superclass must
\* be another name and is resolved as a read, each method is resolved as a
\* function in method context.
VisitClassStatementR(stmt, r) ==
    LET r1 == declare(r, stmt.name)
        r2 == IF Failed(r1) THEN r1 ELSE define(r1, stmt.name)
        r3 == IF stmt.superclass.k # "nil" THEN ResolveExpression(stmt.superclass, r2) ELSE r2
    IN IF Failed(r2) THEN r2
       ELSE IF stmt.superclass.k # "nil" /\ stmt.superclass.name = stmt.name
            THEN Fail(r2, NewResolveError(stmt.superclass.name, "A class can't inherit from itself."))
       ELSE IF Failed(r3) THEN r3
       ELSE ResolveMethods(stmt.methods, 1, r3)

\* A property name is looked up at run time: only the receiver is resolved.
VisitGetExpressionR(expr, r) == ResolveExpression(expr.object, r)

\* The assigned value and the receiver are resolved, the property name is not.
VisitSetExpressionR(expr, r) ==
    LET r1 == ResolveExpression(expr.value, r) IN
    IF Failed(r1) THEN r1 ELSE ResolveExpression(expr.object, r1)

AcceptExpressionR(expr, r) ==
    CASE expr.k = "nil" -> Fail(r, Panic("invalid memory address or nil pointer dereference"))
      [] expr.k = "Literal" -> r
      [] expr.k = "Variable" -> VisitVariableExpressionR(expr, r)
      [] expr.k = "Assign" -> VisitAssignExpressionR(expr, r)
      [] expr.k = "Binary" -> VisitBinaryExpressionR(expr, r)
      [] expr.k = "Logical" -> VisitLogicalExpressionR(expr, r)
      [] expr.k = "Unary" -> ResolveExpression(expr.right, r)
      [] expr.k = "Grouping" -> ResolveExpression(expr.expression, r)
      [] expr.k = "Call" -> VisitCallExpressionR(expr, r)
      [] expr.k = "FunctionExpression" ->
            resolveFunction(expr.parameters, expr.body, "Function", r)
      [] expr.k = "Comma" -> Fail(r, Panic("TODO"))
      [] expr.k = "Condition" -> Fail(r, Panic("TODO"))
      [] expr.k = "Get" -> VisitGetExpressionR(expr, r)
      [] expr.k = "Set" -> VisitSetExpressionR(expr, r)

AcceptStatementR(stmt, r) ==
    CASE stmt.k = "nil" -> Fail(r, Panic("invalid memory address or nil pointer dereference"))
      [] stmt.k = "ExpressionStatement" -> ResolveExpression(stmt.expression, r)
      [] stmt.k = "PrintStatement" -> ResolveExpression(stmt.expression, r)
      [] stmt.k = "VarStatement" -> VisitVarStatementR(stmt, r)
      [] stmt.k = "BlockStatement" -> VisitBlockStatementR(stmt, r)
      [] stmt.k = "IfStatement" -> VisitIfStatementR(stmt, r)
      [] stmt.k = "WhileStatement" -> VisitWhileStatementR(stmt, r)
      [] stmt.k = "FunctionStatement" -> VisitFunctionStatementR(stmt, r)
      [] stmt.k = "ReturnStatement" -> VisitReturnStatementR(stmt, r)
      [] stmt.k = "ClassStatement" -> VisitClassStatementR(stmt, r)

Resolve(what, node, i, r) ==
    CASE what = "Statement" -> AcceptStatementR(node, r)
      [] what = "Expression" -> AcceptExpressionR(node, r)
      [] what = "StatementList" ->
            IF i > Len(node) \/ Failed(r) THEN r
            ELSE Resolve("StatementList", node, i + 1, Resolve("Statement", node[i], 0, r))
      [] what = "ExpressionList" ->
            IF i > Len(node) \/ Failed(r) THEN r
            ELSE Resolve("ExpressionList", node, i + 1, Resolve("Expression", node[i], 0, r))
      [] what = "MethodList" ->
            IF i > Len(node) \/ Failed(r) THEN r
            ELSE Resolve("MethodList", node, i + 1,
                         resolveFunction(node[i].parameters, node[i].body, "Method", r))

-----------------------------------------------------------------------------
(* The environment chain.  The interpreter state st holds the frames ever  *)
(* allocated (heap; a frame's enclosing is an index, 0 for nil), the       *)
(* active frame, the Instance objects ever allocated, the resolver's side  *)
(* table and the lines printed.  The global frame is frame 1.              *)

NoError == [k |-> "nil"]

NewRuntimeError(token, message, args) ==
    [k |-> "RuntimeError", token |-> token, msg |-> message, args |-> args]

Errorf(message, args) == [k |-> "error", token |-> "", msg |-> message, args |-> args]

\* The loop was still running after MaxIter executions of its body.
StillRunning == [k |-> "running", token |-> "", msg |-> "", args |-> << >>]

Globals == 1

NewEnvironment(st, enclosing) ==
    [st EXCEPT !.heap = Append(@, [enclosing |-> enclosing, values |-> EmptyMap])]

\* Define as an assignment: it writes the nearest frame that binds the name.
Define_Nearest(st, e, name, value) ==
    LET assigned == EnvAssign(st, e, name, value) IN
    IF assigned.error = NoError THEN assigned.st
    ELSE [st EXCEPT !.heap[e].values = (name :> value) @@ @]

Define(st, e, name, value) == [st EXCEPT !.heap[e].values = (name :> value) @@ @]

Depth(st, e) ==
    IF st.heap[e].enclosing = 0 THEN 0 ELSE 1 + Depth(st, st.heap[e].enclosing)

\* The value is written to the frame itself, bound there or not.
EnvAssign_Innermost(st, e, name, value) ==
    [st |-> [st EXCEPT !.heap[e].values = (name :> value) @@ @], error |-> NoError]

\* The result is [st, error]: Assign mutates a frame or returns an error.
EnvAssign(st, e, name, value) ==
    IF name \notin DOMAIN st.heap[e].values
    THEN IF st.heap[e].enclosing # 0
         THEN EnvAssign(st, st.heap[e].enclosing, name, value)
         ELSE [st |-> st, error |-> NewRuntimeError(name, "Undefined variable %s", <<name>>)]
    ELSE [st |-> [st EXCEPT !.heap[e].values[name] = value], error |-> NoError]

Get(st, e, name) ==
    IF name \notin DOMAIN st.heap[e].values
    THEN IF st.heap[e].enclosing # 0
         THEN Get(st, st.heap[e].enclosing, name)
         ELSE [value |-> Nil, error |-> NewRuntimeError(name, "Undefined variable %s", <<name>>)]
    ELSE [value |-> st.heap[e].values[name], error |-> NoError]

\* 0 stands for the panic "No enclosing environment at depth".
ancestor(st, e, depth) ==
    IF depth = 0 THEN e
    ELSE IF st.heap[e].enclosing = 0 THEN 0
    ELSE ancestor(st, st.heap[e].enclosing, depth - 1)

GetAt(st, e, name, depth) ==
    IF depth < 0 \/ depth > Depth(st, e)
    THEN [value |-> Nil, error |-> Panic("Invalid depth")]
    ELSE Get(st, ancestor(st, e, depth), name)

AssignAt(st, e, name, depth, value) ==
    IF depth < 0 \/ depth > Depth(st, e)
    THEN [st |-> st, error |-> Panic("Invalid depth")]
    ELSE EnvAssign(st, ancestor(st, e, depth), name, value)

-----------------------------------------------------------------------------
(* The evaluator.  An expression evaluates to an EvaluatedResult           *)
(* [st, value, error]; a statement executes to a StatementResult           *)
(* [st, value, error, raw].  raw marks a Visit method that returned a bare *)
(* error instead of a StatementResult: the type assertion in execute       *)
(* panics on it.  A panic is carried as an error of kind "panic"; nothing  *)
(* recovers from it.                                                       *)

EvaluatedResult(st, value, error) == [st |-> st, value |-> value, error |-> error]

StatementResult(st, value, error) ==
    [st |-> st, value |-> value, error |-> error, raw |-> FALSE]

RawError(st, error) == [st |-> st, value |-> Nil, error |-> error, raw |-> TRUE]

ReturnValue(v) == [t |-> "ReturnValue", value |-> v]

\* A panic, or a loop the model stopped unrolling: control never comes back.
Aborted(error) == error.k \in {"panic", "running"}

\* Every recursive call of the evaluator goes through Run, the Go call stack.
Evaluate(expr, st) == Run("Evaluate", expr, 0, st, << >>)

execute(stmt, st) == Run("execute", stmt, 0, st, << >>)

ExecuteStatements(stmts, i, st) == Run("ExecuteStatements", stmts, i, st, << >>)

EvaluateArguments(exprs, i, st, args) == Run("EvaluateArguments", exprs, i, st, args)

EvaluateExpressions(exprs, i, st, last) == Run("EvaluateExpressions", exprs, i, st, last)

WhileLoop(stmt, st, n) == Run("WhileLoop", stmt, n, st, << >>)

\* The %T rendering of a value.
TypeName(v) ==
    CASE v.t = "nil" -> "<nil>"
      [] v.t \in {"float64", "string", "bool"} -> v.t
      [] OTHER -> v.t

isEqual(left, right) ==
    IF left.t = "nil" /\ right.t = "nil" THEN TRUE
    ELSE IF left.t = "nil" \/ right.t = "nil" THEN FALSE
    ELSE IF left.t = "float64" /\ right.t = "float64"
         THEN left.n = right.n /\ left.d = right.d
    ELSE IF left.t = "string" /\ right.t = "string" THEN left.s = right.s
    ELSE IF left.t = "bool" /\ right.t = "bool" THEN left.b = right.b
    ELSE FALSE

\* Truthiness as in C: the number 0 is falsy too.
isTruthy_ZeroFalsy(val) ==
    IF val.t = "nil" THEN FALSE
    ELSE IF val.t = "bool" THEN val.b
    ELSE IF val.t = "float64" THEN val.n # 0
    ELSE TRUE

isTruthy(val) ==
    IF val.t = "nil" THEN FALSE
    ELSE IF val.t = "bool" THEN val.b
    ELSE TRUE

lookupVariable(st, name, id) ==
    IF id \in DOMAIN st.locals
    THEN GetAt(st, st.environment, name, st.locals[id])
    ELSE Get(st, Globals, name)

VisitVariableExpression(expr, st) ==
    LET got == lookupVariable(st, expr.name, expr.id) IN
    EvaluatedResult(st, got.value, got.error)

VisitAssignExpression(expr, st) ==
    LET res == Evaluate(expr.value, st) IN
    IF res.error # NoError THEN res
    ELSE LET done == IF expr.id \in DOMAIN res.st.locals
                     THEN AssignAt(res.st, res.st.environment, expr.name,
                                   res.st.locals[expr.id], res.value)
                     ELSE EnvAssign(res.st, Globals, expr.name, res.value)
         IN IF done.error # NoError THEN EvaluatedResult(done.st, Nil, done.error)
            ELSE EvaluatedResult(done.st, res.value, NoError)

VisitLogicalExpression(expr, st) ==
    LET left == Evaluate(expr.left, st) IN
    IF left.error # NoError THEN left
    ELSE IF expr.operator = "or" /\ isTruthy(left.value) THEN left
    ELSE IF expr.operator # "or" /\ ~isTruthy(left.value) THEN left
    ELSE Evaluate(expr.right, left.st)

FloatAdd(a, b) == Float(a.n * b.d + b.n * a.d, a.d * b.d)

FloatSub(a, b) == Float(a.n * b.d - b.n * a.d, a.d * b.d)

FloatMul(a, b) == Float(a.n * b.n, a.d * b.d)

FloatDiv(a, b) == Float(a.n * b.d, a.d * b.n)

FloatLess(a, b) == a.n * b.d < b.n * a.d

BothNumbers(l, r) == l.t = "float64" /\ r.t = "float64"

TypeError(op, message, l, r) == NewRuntimeError(op, message, <<TypeName(l), TypeName(r)>>)

BinaryPlus(op, l, r) ==
    IF BothNumbers(l, r) THEN [value |-> FloatAdd(l, r), error |-> NoError]
    ELSE IF l.t = "string" /\ r.t = "string"
         THEN [value |-> Str(l.s \o r.s), error |-> NoError]
    ELSE [value |-> Nil,
          error |-> TypeError(op, "expected numbers/strings for addition, got %T and %T", l, r)]

\* Division without the test for a zero divisor.
BinarySlash_NoZeroCheck(op, l, r) ==
    IF BothNumbers(l, r) THEN [value |-> FloatDiv(l, r), error |-> NoError]
    ELSE [value |-> Nil,
          error |-> TypeError(op, "expected numbers for division, got %T and %T", l, r)]

BinarySlash(op, l, r) ==
    IF BothNumbers(l, r)
    THEN IF r.n = 0
         THEN [value |-> Nil,
               error |-> NewRuntimeError(op, "division by zero is not allowed", << >>)]
         ELSE [value |-> FloatDiv(l, r), error |-> NoError]
    ELSE [value |-> Nil,
          error |-> TypeError(op, "expected numbers for division, got %T and %T", l, r)]

\* - * > < <= : two numbers, or a RuntimeError naming the operand types.
BinaryNumeric(op, l, r) ==
    IF BothNumbers(l, r)
    THEN [value |-> CASE op = "-" -> FloatSub(l, r)
                      [] op = "*" -> FloatMul(l, r)
                      [] op = ">" -> Bool(FloatLess(r, l))
                      [] op = "<" -> Bool(FloatLess(l, r))
                      [] op = "<=" -> Bool(~FloatLess(r, l)),
          error |-> NoError]
    ELSE [value |-> Nil,
          error |-> TypeError(op, CASE op = "-" -> "expected numbers for subtraction, got %T and %T"
                                    [] op = "*" -> "expected numbers for multiplication, got %T and %T"
                                    [] op = ">" -> "expected numbers for greater than comparison, got %T and %T"
                                    [] op = "<" -> "expected numbers for less than comparison, got %T and %T"
                                    [] op = "<=" -> "expected numbers for less than or equal comparison, got %T and %T",
                              l, r)]

\* >= reports a mismatch with fmt.Errorf, not with a RuntimeError.
BinaryGreaterEqual(op, l, r) ==
    IF BothNumbers(l, r) THEN [value |-> Bool(~FloatLess(l, r)), error |-> NoError]
    ELSE [value |-> Nil,
          error |-> Errorf("expected numbers for greater than or equal comparison, got %T and %T",
                           <<TypeName(l), TypeName(r)>>)]

BinaryOperation(op, l, r) ==
    CASE op = "+" -> BinaryPlus(op, l, r)
      [] op = "/" -> BinarySlash(op, l, r)
      [] op \in {"-", "*", ">", "<", "<="} -> BinaryNumeric(op, l, r)
      [] op = ">=" -> BinaryGreaterEqual(op, l, r)
      [] op = "==" -> [value |-> Bool(isEqual(l, r)), error |-> NoError]
      [] op = "!=" -> [value |-> Bool(isEqual(l, r)), error |-> NoError]
      [] OTHER -> [value |-> Nil,
                   error |-> NewRuntimeError(op, "unknown binary operator: %s", <<op>>)]

VisitBinaryExpression(expr, st) ==
    LET left == Evaluate(expr.left, st)
        right == Evaluate(expr.right, left.st)
        res == BinaryOperation(expr.operator, left.value, right.value)
    IN IF left.error # NoError THEN EvaluatedResult(left.st, Nil, left.error)
       ELSE IF right.error # NoError THEN EvaluatedResult(right.st, Nil, right.error)
       ELSE EvaluatedResult(right.st, res.value, res.error)

VisitUnaryExpression(expr, st) ==
    LET right == Evaluate(expr.right, st) IN
    IF right.error # NoError THEN EvaluatedResult(right.st, Nil, right.error)
    ELSE IF expr.operator = "-"
         THEN IF right.value.t = "float64"
              THEN EvaluatedResult(right.st, Float(-right.value.n, right.value.d), NoError)
              ELSE EvaluatedResult(right.st, Nil,
                       NewRuntimeError("-", "expected a number for unary minus, got %T",
                                       <<TypeName(right.value)>>))
    ELSE IF expr.operator = "!"
         THEN EvaluatedResult(right.st, Bool(~isTruthy(right.value)), NoError)
    ELSE EvaluatedResult(right.st, Nil,
             NewRuntimeError(expr.operator, "unknown unary operator: %s", <<expr.operator>>))

\* The loop of VisitCommaExpression: the value is the last operand's.
CommaLoop(exprs, i, st, last) ==
    IF i > Len(exprs) THEN EvaluatedResult(st, last, NoError)
    ELSE LET result == Evaluate(exprs[i], st) IN
         IF result.error # NoError THEN result
         ELSE EvaluateExpressions(exprs, i + 1, result.st, result.value)

VisitCommaExpression(expr, st) == EvaluateExpressions(expr.expressions, 1, st, Nil)

\* The TODO stub returns nil; the type assertion in Evaluate panics on it.
VisitConditionExpression(expr, st) ==
    EvaluatedResult(st, Nil, Panic("interface conversion: interface is nil, not EvaluatedResult"))

NewFunction(declaration, closure) ==
    [t |-> "*interpreter.Function", declaration |-> declaration, closure |-> closure]

NewAnonymousFunction(expression, closure) ==
    [t |-> "*interpreter.AnonymousFunction", declaration |-> expression, closure |-> closure]

ClockFunction == [t |-> "*interpreter.clockFunction"]

VisitFunctionExpression(expr, st) ==
    EvaluatedResult(st, NewAnonymousFunction(expr, st.environment), NoError)

\* methods maps a name to a Function; superclass is a Class, or Nil.
NewClass(name, superclass, methods) ==
    [t |-> "*interpreter.Class", name |-> name, superclass |-> superclass,
     methods |-> methods]

\* The superclass chain is searched before the class's own methods.
FindMethod_SuperclassFirst(c, name) ==
    LET inherited == IF c.superclass # Nil THEN FindMethod_SuperclassFirst(c.superclass, name)
                     ELSE Nil
    IN IF inherited # Nil THEN inherited
       ELSE IF name \in DOMAIN c.methods THEN c.methods[name]
       ELSE Nil

\* The result is a Function, or Nil for Go's nil.
FindMethod(c, name) ==
    IF name \in DOMAIN c.methods THEN c.methods[name]
    ELSE IF c.superclass # Nil THEN FindMethod(c.superclass, name)
    ELSE Nil

IsCallable(v) ==
    v.t \in {"*interpreter.Function", "*interpreter.AnonymousFunction",
             "*interpreter.clockFunction", "*interpreter.Class"}

\* An arity that forgets the parameters: always 0.
FunctionArity_Stub(f) == 0

FunctionArity(f) == Len(f.declaration.parameters)

ClassArity(c) ==
    LET initializer == FindMethod(c, "init") IN
    IF initializer # Nil THEN FunctionArity(initializer) ELSE 0

Arity(v) ==
    CASE v.t = "*interpreter.clockFunction" -> 0
      [] v.t = "*interpreter.Class" -> ClassArity(v)
      [] OTHER -> FunctionArity(v)

\* The frame is put back at the end of the loop only, not by a defer.
executeBlockStatement_NoDefer(stmt, environment, st) ==
    LET previousEnvironment == st.environment
        res == ExecuteStatements(stmt.statements, 1, [st EXCEPT !.environment = environment])
    IN IF res.error # NoError THEN res ELSE [res EXCEPT !.st.environment = previousEnvironment]

executeBlockStatement(stmt, environment, st) ==
    LET previousEnvironment == st.environment
        res == ExecuteStatements(stmt.statements, 1, [st EXCEPT !.environment = environment])
    IN [res EXCEPT !.st.environment = previousEnvironment]

\* The loop of executeBlockStatement.
BlockLoop(stmts, i, st) ==
    IF i > Len(stmts) THEN StatementResult(st, Nil, NoError)
    ELSE LET res == execute(stmts[i], st) IN
         IF res.error # NoError THEN res
         ELSE IF res.value.t = "ReturnValue" THEN res
         ELSE ExecuteStatements(stmts, i + 1, res.st)

\* The loop "for i, param := range parameters { Define(param, args[i]) }";
\* args[i] beyond the slice is Go's index-out-of-range panic.
DefineParameters(st, e, parameters, args, i) ==
    IF i > Len(parameters) THEN [st |-> st, error |-> NoError]
    ELSE IF i > Len(args) THEN [st |-> st, error |-> Panic("index out of range")]
    ELSE DefineParameters(Define(st, e, parameters[i], args[i]), e, parameters, args, i + 1)

\* Function.Call and AnonymousFunction.Call: the same body over the
\* declaration or the expression.
FunctionCall(f, st, args) ==
    LET st1 == NewEnvironment(st, f.closure)
        environment == Len(st1.heap)
        bound == DefineParameters(st1, environment, f.declaration.parameters, args, 1)
        res == executeBlockStatement(f.declaration.body, environment, bound.st)
    IN IF Len(args) # FunctionArity(f)
       THEN EvaluatedResult(st1, Nil,
                NewRuntimeError(IF f.t = "*interpreter.Function" THEN f.declaration.name ELSE "fun",
                                "expected %d arguments but got %d",
                                <<FunctionArity(f), Len(args)>>))
       ELSE IF bound.error # NoError THEN EvaluatedResult(bound.st, Nil, bound.error)
       ELSE IF res.error # NoError THEN EvaluatedResult(res.st, Nil, res.error)
       ELSE IF res.value.t = "ReturnValue"
            THEN EvaluatedResult(res.st, res.value.value, NoError)
       ELSE EvaluatedResult(res.st, Nil, NoError)

ClockCall(st, args) == EvaluatedResult(st, Num(st.now), NoError)

\* The result is [st, value]: the state with the new object, and the
\* reference to it.
NewInstance(st, class) ==
    [st |-> [st EXCEPT !.instances = Append(@, [class |-> class, fields |-> EmptyMap])],
     value |-> [t |-> "*interpreter.Instance", ref |-> Len(st.instances) + 1]]

\* Function.Bind: the method over a fresh frame that defines this.  The
\* result is [st, value].
Bind(st, method, instance) ==
    LET st1 == NewEnvironment(st, method.closure)
        environment == Len(st1.heap)
    IN [st |-> Define(st1, environment, "this", instance),
        value |-> NewFunction(method.declaration, environment)]

\* The call yields what the initializer returned.
ClassCall_InitResult(c, st, args) ==
    LET made == NewInstance(st, c)
        initializer == FindMethod(c, "init")
        bound == Bind(made.st, initializer, made.value)
    IN IF initializer = Nil THEN EvaluatedResult(made.st, made.value, NoError)
       ELSE FunctionCall(bound.value, bound.st, args)

\* The initializer's result, an error included, is dropped; a panic in it
\* is not a result and still unwinds the call.
ClassCall(c, st, args) ==
    LET made == NewInstance(st, c)
        initializer == FindMethod(c, "init")
        bound == Bind(made.st, initializer, made.value)
        res == FunctionCall(bound.value, bound.st, args)
    IN IF initializer = Nil THEN EvaluatedResult(made.st, made.value, NoError)
       ELSE IF Aborted(res.error) THEN res
       ELSE EvaluatedResult(res.st, made.value, NoError)

\* The class's methods are searched before the instance's fields.
InstanceGet_MethodFirst(st, instance, name) ==
    LET i == st.instances[instance.ref]
        method == FindMethod(i.class, name)
        bound == Bind(st, method, instance)
    IN IF method # Nil THEN [st |-> bound.st, value |-> bound.value, error |-> NoError]
       ELSE IF name \in DOMAIN i.fields
            THEN [st |-> st, value |-> i.fields[name], error |-> NoError]
       ELSE [st |-> st, value |-> Nil,
             error |-> Errorf("undefined property '%s' in instance of class '%s'",
                              <<name, i.class.name>>)]

\* Instance.Get: the result is [st, value, error]; error is the Go error
\* value, NoError for nil.
InstanceGet(st, instance, name) ==
    LET i == st.instances[instance.ref]
        method == FindMethod(i.class, name)
        bound == Bind(st, method, instance)
    IN IF name \in DOMAIN i.fields THEN [st |-> st, value |-> i.fields[name], error |-> NoError]
       ELSE IF method # Nil THEN [st |-> bound.st, value |-> bound.value, error |-> NoError]
       ELSE [st |-> st, value |-> Nil,
             error |-> Errorf("undefined property '%s' in instance of class '%s'",
                              <<name, i.class.name>>)]

InstanceSet(st, instance, name, value) ==
    [st EXCEPT !.instances[instance.ref].fields = (name :> value) @@ @]

\* The receiver's Error is not looked at: a receiver that failed has a nil
\* Value, which is not an Instance.
VisitGetExpression(expr, st) ==
    LET object == Evaluate(expr.object, st)
        got == InstanceGet(object.st, object.value, expr.name)
    IN IF Aborted(object.error) THEN object
       ELSE IF object.value.t # "*interpreter.Instance"
            THEN EvaluatedResult(object.st, Nil,
                     NewRuntimeError(expr.name, "only instances have properties, got %T",
                                     <<TypeName(object.value)>>))
       ELSE IF got.error # NoError
            THEN EvaluatedResult(got.st, Nil,
                     NewRuntimeError(expr.name, got.error.msg, got.error.args))
       ELSE EvaluatedResult(got.st, got.value, NoError)

VisitSetExpression(expr, st) ==
    LET object == Evaluate(expr.object, st)
        evaluatedRes == Evaluate(expr.value, object.st)
    IN IF Aborted(object.error) THEN object
       ELSE IF object.value.t # "*interpreter.Instance"
            THEN EvaluatedResult(object.st, Nil,
                     NewRuntimeError(expr.name, "only instances have properties, got %T",
                                     <<TypeName(object.value)>>))
       ELSE IF evaluatedRes.error # NoError THEN evaluatedRes
       ELSE EvaluatedResult(InstanceSet(evaluatedRes.st, object.value, expr.name,
                                        evaluatedRes.value),
                            evaluatedRes.value, NoError)

CallValue(function, st, args) ==
    CASE function.t = "*interpreter.clockFunction" -> ClockCall(st, args)
      [] function.t = "*interpreter.Class" -> ClassCall(function, st, args)
      [] OTHER -> FunctionCall(function, st, args)

\* The argument loop of VisitCallExpression; the result is [st, values, value, error].
ArgumentLoop(exprs, i, st, args) ==
    IF i > Len(exprs) THEN [st |-> st, values |-> args, value |-> Nil, error |-> NoError]
    ELSE LET result == Evaluate(exprs[i], st) IN
         IF result.error # NoError
         THEN [st |-> result.st, values |-> args, value |-> result.value,
               error |-> result.error]
         ELSE EvaluateArguments(exprs, i + 1, result.st, Append(args, result.value))

VisitCallExpression(expr, st) ==
    LET callee == Evaluate(expr.callee, st)
        function == callee.value
        evaluated == EvaluateArguments(expr.arguments, 1, callee.st, << >>)
    IN IF callee.error # NoError THEN callee
       ELSE IF ~IsCallable(function)
            THEN EvaluatedResult(callee.st, Nil,
                     NewRuntimeError(")", "can only call functions and classes, got %T",
                                     <<TypeName(function)>>))
       ELSE IF Len(expr.arguments) # Arity(function)
            THEN EvaluatedResult(callee.st, Nil,
                     NewRuntimeError(")", "expected %d arguments but got %d",
                                     <<Arity(function), Len(expr.arguments)>>))
       ELSE IF evaluated.error # NoError
            THEN EvaluatedResult(evaluated.st, evaluated.value, evaluated.error)
       ELSE CallValue(function, evaluated.st, evaluated.values)

\* expr.Accept(interpreter).(EvaluatedResult); a nil expr is Go's nil
\* dereference.
AcceptExpression(expr, st) ==
    CASE expr.k = "nil" ->
            EvaluatedResult(st, Nil, Panic("invalid memory address or nil pointer dereference"))
      [] expr.k = "Literal" -> EvaluatedResult(st, expr.value, NoError)
      [] expr.k = "Grouping" -> Evaluate(expr.expression, st)
      [] expr.k = "Variable" -> VisitVariableExpression(expr, st)
      [] expr.k = "Assign" -> VisitAssignExpression(expr, st)
      [] expr.k = "Logical" -> VisitLogicalExpression(expr, st)
      [] expr.k = "Binary" -> VisitBinaryExpression(expr, st)
      [] expr.k = "Unary" -> VisitUnaryExpression(expr, st)
      [] expr.k = "Comma" -> VisitCommaExpression(expr, st)
      [] expr.k = "Condition" -> VisitConditionExpression(expr, st)
      [] expr.k = "Call" -> VisitCallExpression(expr, st)
      [] expr.k = "FunctionExpression" -> VisitFunctionExpression(expr, st)
      [] expr.k = "Get" -> VisitGetExpression(expr, st)
      [] expr.k = "Set" -> VisitSetExpression(expr, st)

VisitExpressionStatement(stmt, st) ==
    LET result == Evaluate(stmt.expression, st) IN
    StatementResult(result.st, Nil, result.error)

VisitPrintStatement(stmt, st) ==
    LET result == Evaluate(stmt.expression, st) IN
    IF result.error # NoError THEN StatementResult(result.st, Nil, result.error)
    ELSE StatementResult([result.st EXCEPT !.output = Append(@, result.value)], Nil, NoError)

VisitVarStatement(stmt, st) ==
    IF stmt.initializer.k # "nil"
    THEN LET initResult == Evaluate(stmt.initializer, st) IN
         IF initResult.error # NoError THEN RawError(initResult.st, initResult.error)
         ELSE StatementResult(Define(initResult.st, initResult.st.environment, stmt.name,
                                     initResult.value), Nil, NoError)
    ELSE StatementResult(Define(st, st.environment, stmt.name, Nil), Nil, NoError)

VisitBlockStatement(stmt, st) ==
    LET st1 == NewEnvironment(st, st.environment) IN
    executeBlockStatement(stmt, Len(st1.heap), st1)

VisitIfStatement(stmt, st) ==
    LET cond == Evaluate(stmt.condition, st) IN
    IF cond.error # NoError THEN RawError(cond.st, cond.error)
    ELSE IF isTruthy(cond.value) THEN execute(stmt.thenBranch, cond.st)
    ELSE IF stmt.elseBranch.k # "nil" THEN execute(stmt.elseBranch, cond.st)
    ELSE StatementResult(cond.st, Nil, NoError)

\* One turn of the for { } loop of VisitWhileStatement; n counts the
\* executions of the body so far.
WhileTurn(stmt, st, n) ==
    LET cond == Evaluate(stmt.condition, st) IN
    IF cond.error # NoError THEN RawError(cond.st, cond.error)
    ELSE IF ~isTruthy(cond.value) THEN StatementResult(cond.st, Nil, NoError)
    ELSE IF n >= MaxIter THEN StatementResult(cond.st, Nil, StillRunning)
    ELSE LET res == execute(stmt.body, cond.st) IN
         IF res.error # NoError THEN res
         ELSE WhileLoop(stmt, res.st, n + 1)

VisitWhileStatement(stmt, st) == WhileLoop(stmt, st, 0)

VisitFunctionStatement(stmt, st) ==
    StatementResult(Define(st, st.environment, stmt.name, NewFunction(stmt, st.environment)),
                    Nil, NoError)

VisitReturnStatement(stmt, st) ==
    LET result == Evaluate(stmt.value, st) IN
    StatementResult(result.st, ReturnValue(result.value), result.error)

\* The name is first defined as nil, the superclass evaluated, each method
\* built into a Function closing over the active frame (a later method of
\* the same name replaces an earlier one), and the class assigned over the
\* placeholder.
VisitClassStatement(stmt, st) ==
    LET st1 == Define(st, st.environment, stmt.name, Nil)
        super == IF stmt.superclass.k # "nil" THEN Evaluate(stmt.superclass, st1)
                 ELSE EvaluatedResult(st1, Nil, NoError)
        names == {stmt.methods[i].name : i \in DOMAIN stmt.methods}
        methods == [name \in names |->
                       NewFunction(stmt.methods[Max({i \in DOMAIN stmt.methods :
                                                        stmt.methods[i].name = name})],
                                   st.environment)]
        class == NewClass(stmt.name, super.value, methods)
        assigned == EnvAssign(super.st, super.st.environment, stmt.name, class)
    IN IF super.error # NoError THEN StatementResult(super.st, Nil, super.error)
       ELSE IF stmt.superclass.k # "nil" /\ super.value.t # "*interpreter.Class"
            THEN StatementResult(super.st, Nil,
                     NewRuntimeError(stmt.superclass.name, "Superclass must be a class.", << >>))
       ELSE StatementResult(assigned.st, Nil, assigned.error)

Accept(stmt, st) ==
    CASE stmt.k = "ExpressionStatement" -> VisitExpressionStatement(stmt, st)
      [] stmt.k = "PrintStatement" -> VisitPrintStatement(stmt, st)
      [] stmt.k = "VarStatement" -> VisitVarStatement(stmt, st)
      [] stmt.k = "BlockStatement" -> VisitBlockStatement(stmt, st)
      [] stmt.k = "IfStatement" -> VisitIfStatement(stmt, st)
      [] stmt.k = "WhileStatement" -> VisitWhileStatement(stmt, st)
      [] stmt.k = "FunctionStatement" -> VisitFunctionStatement(stmt, st)
      [] stmt.k = "ReturnStatement" -> VisitReturnStatement(stmt, st)
      [] stmt.k = "ClassStatement" -> VisitClassStatement(stmt, st)

\* statement.Accept(interpreter).(StatementResult)
AssertStatementResult(res) ==
    IF res.raw /\ ~Aborted(res.error)
    THEN StatementResult(res.st, Nil,
             Panic("interface conversion: interface is *RuntimeError, not StatementResult"))
    ELSE [res EXCEPT !.raw = FALSE]

Run(what, node, i, st, acc) ==
    CASE what = "Evaluate" -> AcceptExpression(node, st)
      [] what = "execute" -> AssertStatementResult(Accept(node, st))
      [] what = "ExecuteStatements" -> BlockLoop(node, i, st)
      [] what = "EvaluateArguments" -> ArgumentLoop(node, i, st, acc)
      [] what = "EvaluateExpressions" -> CommaLoop(node, i, st, acc)
      [] what = "WhileLoop" -> WhileTurn(node, st, i)

-----------------------------------------------------------------------------
(* The lexer.  The source is a sequence of bytes, each a string of one     *)
(* character; a lexeme is a run of them.  Lexer.current and Lexer.start    *)
(* count the bytes before the place they name.                             *)

NewLexer(input) == [source |-> input, start |-> 0, current |-> 0, line |-> 1]

IsAtEnd(l) == l.current >= Len(l.source)

\* The result is [l, ok].
match(l, expected) ==
    IF IsAtEnd(l) THEN [l |-> l, ok |-> FALSE]
    ELSE IF l.source[l.current + 1] # expected THEN [l |-> l, ok |-> FALSE]
    ELSE [l |-> [l EXCEPT !.current = @ + 1], ok |-> TRUE]

\* The byte 0 that peek and peekNext return at the end is written "".
peek(l) == IF IsAtEnd(l) THEN "" ELSE l.source[l.current + 1]

peekNext(l) == IF l.current + 1 >= Len(l.source) THEN "" ELSE l.source[l.current + 2]

LexerToken(type, lexeme, literal, line) ==
    [type |-> type, lexeme |-> lexeme, literal |-> literal, line |-> line]

\* What NextToken returns, with the lexer as the call left it.
Lexed(l, token, err) == [l |-> l, token |-> token, err |-> err]

isAlpha(c) ==
    c \in {"a", "b", "c", "d", "e", "f", "g", "h", "i", "j", "k", "l", "m", "n", "o", "p", "q",
           "r", "s", "t", "u", "v", "w", "x", "y", "z", "A", "B", "C", "D", "E", "F", "G", "H",
           "I", "J", "K", "L", "M", "N", "O", "P", "Q", "R", "S", "T", "U", "V", "W", "X", "Y",
           "Z", "_"}

DigitValue ==
    "0" :> 0 @@ "1" :> 1 @@ "2" :> 2 @@ "3" :> 3 @@ "4" :> 4 @@ "5" :> 5 @@ "6" :> 6
    @@ "7" :> 7 @@ "8" :> 8 @@ "9" :> 9

isDigit(c) == c \in DOMAIN DigitValue

\* for test(l.peek()) { l.Advance() }
AdvanceWhile(l, test(_)) ==
    LET end[j \in l.current..Len(l.source)] ==
            IF j < Len(l.source) /\ test(l.source[j + 1]) THEN end[j + 1] ELSE j
    IN [l EXCEPT !.current = end[l.current]]

Keyword ==
    <<"a", "n", "d">> :> "and" @@ <<"c", "l", "a", "s", "s">> :> "class"
    @@ <<"e", "l", "s", "e">> :> "else" @@ <<"f", "a", "l", "s", "e">> :> "false"
    @@ <<"f", "o", "r">> :> "for" @@ <<"f", "u", "n">> :> "fun" @@ <<"i", "f">> :> "if"
    @@ <<"n", "i", "l">> :> "nil" @@ <<"o", "r">> :> "or"
    @@ <<"p", "r", "i", "n", "t">> :> "print" @@ <<"r", "e", "t", "u", "r", "n">> :> "return"
    @@ <<"s", "u", "p", "e", "r">> :> "super" @@ <<"t", "h", "i", "s">> :> "this"
    @@ <<"t", "r", "u", "e">> :> "true" @@ <<"v", "a", "r">> :> "var"
    @@ <<"w", "h", "i", "l", "e">> :> "while"

nextKeywordOrIdentifier(l) ==
    LET l1 == AdvanceWhile(l, LAMBDA c : isAlpha(c) \/ isDigit(c))
        str == SubSeq(l1.source, l1.start + 1, l1.current)
    IN IF str \in DOMAIN Keyword
       THEN Lexed(l1, LexerToken(Keyword[str], str,
                                 IF Keyword[str] \in {"true", "false"}
                                 THEN Bool(Keyword[str] = "true") ELSE Nil,
                                 l1.line),
                  NoError)
       ELSE Lexed(l1, LexerToken("IDENTIFIER", str, Nil, l1.line), NoError)

\* strconv.ParseFloat of digits, or of digits "." digits.
ParseFloat(str) ==
    LET point == IF "." \in {str[i] : i \in 1..Len(str)}
                 THEN CHOOSE i \in 1..Len(str) : str[i] = "." ELSE Len(str) + 1
        digits == SubSeq(str, 1, point - 1) \o SubSeq(str, point + 1, Len(str))
        value[i \in 0..Len(digits)] ==
            IF i = 0 THEN 0 ELSE 10 * value[i - 1] + DigitValue[digits[i]]
    IN Float(value[Len(digits)], 10 ^ (IF point <= Len(str) THEN Len(str) - point ELSE 0))

nextNumber(l) ==
    LET l1 == AdvanceWhile(l, isDigit)
        l2 == IF peek(l1) = "." /\ isDigit(peekNext(l1))
              THEN AdvanceWhile([l1 EXCEPT !.current = @ + 1], isDigit)
              ELSE l1
        str == SubSeq(l2.source, l2.start + 1, l2.current)
    IN Lexed(l2, LexerToken("NUMBER", str, ParseFloat(str), l2.line), NoError)

\* The line is not counted up at a newline inside the string.
nextString_LineKept(l) ==
    LET l1 == AdvanceWhile(l, LAMBDA c : c # "\"")
    IN IF IsAtEnd(l1)
       THEN [l |-> l1, str |-> << >>, err |-> Errorf("unterminated string.", << >>)]
       ELSE [l |-> [l1 EXCEPT !.current = @ + 1],
             str |-> SubSeq(l1.source, l1.start + 2, l1.current), err |-> NoError]

\* The result is [l, str, err].
nextString(l) ==
    LET loop[j \in l.current..Len(l.source)] ==
            IF j < Len(l.source) /\ l.source[j + 1] # "\""
            THEN LET rest == loop[j + 1] IN
                 [rest EXCEPT !.line = @ + IF l.source[j + 1] = "\n" THEN 1 ELSE 0]
            ELSE [current |-> j, line |-> l.line]
        l1 == [l EXCEPT !.current = loop[l.current].current, !.line = loop[l.current].line]
    IN IF IsAtEnd(l1)
       THEN [l |-> l1, str |-> << >>, err |-> Errorf("unterminated string.", << >>)]
       ELSE [l |-> [l1 EXCEPT !.current = @ + 1],
             str |-> SubSeq(l1.source, l1.start + 2, l1.current), err |-> NoError]

\* The result is [l, token, err].  A turn of the for loop that returns
\* nothing (blank, newline, comment) is followed by the next.
NextToken(l) ==
    IF IsAtEnd(l)
    THEN Lexed(l, LexerToken("EOF", << >>, Nil, l.line), NoError)
    ELSE LET c == l.source[l.current + 1]
             s == [l EXCEPT !.start = l.current, !.current = l.current + 1]
             equal == match(s, "=")
             slash == match(s, "/")
             string == nextString(s)
         IN CASE c \in {"(", ")", "{", "}", ",", ".", "-", "+", "*", ";", "?", ":"} ->
                     Lexed(s, LexerToken(c, <<c>>, Nil, s.line), NoError)
              [] c \in {"!", "=", ">", "<"} ->
                     IF equal.ok
                     THEN Lexed(equal.l, LexerToken(c \o "=", <<c, "=">>, Nil, s.line), NoError)
                     ELSE Lexed(s, LexerToken(c, <<c>>, Nil, s.line), NoError)
              [] c = "/" ->
                     IF slash.ok THEN NextToken(AdvanceWhile(slash.l, LAMBDA b : b # "\n"))
                     ELSE Lexed(s, LexerToken("/", <<"/">>, Nil, s.line), NoError)
              [] c \in {" ", "\r", "\t"} -> NextToken(s)
              [] c = "\n" -> NextToken([s EXCEPT !.line = @ + 1])
              [] c = "\"" ->
                     Lexed(string.l,
                           LexerToken("STRING", string.str, [t |-> "string", s |-> string.str],
                                      string.l.line),
                           string.err)
              [] OTHER ->
                     IF isDigit(c) THEN nextNumber(s)
                     ELSE IF isAlpha(c) THEN nextKeywordOrIdentifier(s)
                     ELSE Lexed(s, LexerToken("EOF", <<c>>, Nil, s.line),
                                Errorf("Unexpected character %x", <<c>>))

-----------------------------------------------------------------------------
(* The parser's expression ladder.  A token is its type, named here by its  *)
(* lexeme, and its literal; the parser state p is the Parser struct: the    *)
(* token slice and current, the 0-based index of the token to read next.    *)
(* A parse result is [p, expr, err].  The token sequences parsed here are   *)
(* made of numbers, identifiers, the arithmetic, comparison, equality and   *)
(* unary operators, = , ( ) { } ; and the keywords var, print and for.      *)

Token(type, literal) == [type |-> type, literal |-> literal]

NewParser(tokens) == [tokens |-> tokens, current |-> 0]

Parsed(p, expr, err) == [p |-> p, expr |-> expr, err |-> err]

currentToken(p) ==
    IF p.current >= Len(p.tokens) THEN Token("EOF", Nil) ELSE p.tokens[p.current + 1]

currentTokenIs(p, tokenTypes) ==
    IF p.current >= Len(p.tokens) THEN FALSE ELSE currentToken(p).type \in tokenTypes

\* The result is [p, token, err].
advance(p) ==
    IF p.current >= Len(p.tokens)
    THEN [p |-> p, token |-> Token("", Nil), err |-> Errorf("unexpected end of input", << >>)]
    ELSE [p |-> [p EXCEPT !.current = @ + 1], token |-> p.tokens[p.current + 1],
          err |-> NoError]

\* Every recursive call of the parser goes through Descend, the Go call stack.
ParseEquality(p) == Descend("call", "ParseEquality", p, NoNode)

parseComparison(p) == Descend("call", "parseComparison", p, NoNode)

parseTerm(p) == Descend("call", "parseTerm", p, NoNode)

parseFactor(p) == Descend("call", "parseFactor", p, NoNode)

parseUnary(p) == Descend("call", "parseUnary", p, NoNode)

\* The token types each binary level loops on.
Operators(level) ==
    CASE level = "ParseEquality" -> {"!=", "=="}
      [] level = "parseComparison" -> {">", ">=", "<", "<="}
      [] level = "parseTerm" -> {"+", "-"}
      [] level = "parseFactor" -> {"*", "/"}

\* The function each binary level calls for its operands.
Below(level) ==
    CASE level = "ParseEquality" -> "parseComparison"
      [] level = "parseComparison" -> "parseTerm"
      [] level = "parseTerm" -> "parseFactor"
      [] level = "parseFactor" -> "parseUnary"

\* The right operand is parsed by the level itself, not by the one below.
BinaryLoop_RightRecursive(level, p, left) ==
    LET op == advance(p)
        right == Descend("call", level, op.p, NoNode)
    IN IF ~currentTokenIs(p, Operators(level)) THEN Parsed(p, left, NoError)
       ELSE IF op.err # NoError THEN Parsed(op.p, NoNode, op.err)
       ELSE IF right.err # NoError THEN Parsed(right.p, NoNode, right.err)
       ELSE Descend("for", level, right.p, Binary(left, op.token.type, right.expr))

\* The for loop the four binary levels share: while the current token is one
\* of the level's operators, take it, parse the right operand one level
\* below, and make the tree so far the left operand of a new Binary.
BinaryLoop(level, p, left) ==
    LET op == advance(p)
        right == Descend("call", Below(level), op.p, NoNode)
    IN IF ~currentTokenIs(p, Operators(level)) THEN Parsed(p, left, NoError)
       ELSE IF op.err # NoError THEN Parsed(op.p, NoNode, op.err)
       ELSE IF right.err # NoError THEN Parsed(right.p, NoNode, right.err)
       ELSE Descend("for", level, right.p, Binary(left, op.token.type, right.expr))

\* ParseEquality, parseComparison, parseTerm and parseFactor: the first
\* operand one level below, then the loop.
BinaryLevel(level, p) ==
    LET left == Descend("call", Below(level), p, NoNode) IN
    IF left.err # NoError THEN Parsed(left.p, NoNode, left.err)
    ELSE Descend("for", level, left.p, left.expr)

\* p.<name>() for the functions that are called from above their definition.
parse(name, p) == Descend("call", name, p, NoNode)

parseExpression(p) == parse("parseCommaExpression", p)

\* The result is [p, token, err].
consume(p, tokenType, errorMessage) ==
    IF currentTokenIs(p, {tokenType}) THEN advance(p)
    ELSE [p |-> p, token |-> Token("", Nil),
          err |-> Errorf("%s got token %s", <<errorMessage, currentToken(p).type>>)]

\* In what follows the error of an advance() made right after
\* currentTokenIs held is left out: it cannot be raised.  An identifier token
\* carries its name as its literal, and the Variable node it becomes is named
\* by the index of the token.  Of the literals only numbers are parsed here.
parsePrimary(p) ==
    LET t == advance(p)
        exp == parseExpression(t.p)
    IN IF currentTokenIs(p, {"NUMBER"}) THEN Parsed(t.p, Literal(t.token.literal), NoError)
       ELSE IF currentTokenIs(p, {"("})
            THEN IF exp.err # NoError THEN Parsed(exp.p, NoNode, exp.err)
                 ELSE IF currentTokenIs(exp.p, {")"})
                      THEN Parsed(advance(exp.p).p, Grouping(exp.expr), NoError)
                 ELSE Parsed(exp.p, NoNode,
                          Errorf("expected ) but got token %s", <<currentToken(exp.p).type>>))
       ELSE IF currentTokenIs(p, {"IDENTIFIER"})
            THEN Parsed(t.p, Variable(p.current + 1, t.token.literal.s), NoError)
       ELSE Parsed(p, NoNode, Errorf("expected expression got %s", <<currentToken(p).type>>))

\* The most arguments of a call, and one more than finishCall accepts.
MaxArgumentCount == 255

\* p stands after the ( of the call.
finishCall(p, callee) ==
    LET empty == currentTokenIs(p, {")"})
        commaExpression == IF empty THEN Parsed(p, NoNode, NoError)
                           ELSE parse("parseCommaExpression", p)
        isComma == ~empty /\ commaExpression.expr.k = "Comma"
        arguments == IF empty THEN << >>
                     ELSE IF isComma THEN commaExpression.expr.expressions
                     ELSE <<commaExpression.expr>>
        paren == consume(commaExpression.p, ")", "expect ) after function arguments")
    IN IF commaExpression.err # NoError THEN Parsed(commaExpression.p, NoNode, commaExpression.err)
       ELSE IF isComma /\ Len(commaExpression.expr.expressions) >= MaxArgumentCount
            THEN Parsed(commaExpression.p, NoNode,
                     Errorf("can't have more than 255 arguments., got %d",
                            <<Len(commaExpression.expr.expressions)>>))
       ELSE IF paren.err # NoError THEN Parsed(paren.p, NoNode, paren.err)
       ELSE Parsed(paren.p, Call(callee, arguments), NoError)

\* The for loop of parseCall.  The err that finishCall returns is assigned to
\* the err declared inside the if block, which nothing reads: the loop goes
\* on with the nil callee.
CallLoop(p, callee) ==
    IF currentTokenIs(p, {"("})
    THEN LET called == Descend("call", "finishCall", advance(p).p, callee) IN
         Descend("for", "parseCall", called.p, called.expr)
    ELSE Parsed(p, callee, NoError)

parseCall(p) ==
    LET callee == parse("parsePrimary", p) IN
    IF callee.err # NoError THEN callee
    ELSE Descend("for", "parseCall", callee.p, callee.expr)

UnaryLevel(p) ==
    LET op == advance(p)
        right == parseUnary(op.p)
    IN IF currentTokenIs(p, {"-", "!"})
       THEN IF op.err # NoError THEN Parsed(op.p, NoNode, op.err)
            ELSE IF right.err # NoError THEN Parsed(right.p, NoNode, right.err)
            ELSE Parsed(right.p, Unary(op.token.type, right.expr), NoError)
       ELSE parse("parseCall", p)

\* ParseOr and ParseAnd each return their first operand when the token
\* after it is not theirs, and no token parsed here is an or or an and.
ParseOr(p) == ParseEquality(p)

parseTernary(p) ==
    LET predicate == ParseOr(p)
        consequent == parseExpression(advance(predicate.p).p)
        alternative == parseExpression(advance(consequent.p).p)
    IN IF predicate.err # NoError THEN predicate
       ELSE IF ~currentTokenIs(predicate.p, {"?"}) THEN predicate
       ELSE IF consequent.err # NoError THEN consequent
       ELSE IF ~currentTokenIs(consequent.p, {":"})
            THEN Parsed(consequent.p, NoNode,
                     Errorf("expected : but got token %s", <<currentToken(consequent.p).type>>))
       ELSE IF alternative.err # NoError THEN alternative
       ELSE Parsed(alternative.p,
                   Condition(predicate.expr, consequent.expr, alternative.expr), NoError)

\* %T of the node: its kind, <nil> for a nil interface.
parseAssignment(p) ==
    LET expr == parse("parseTernary", p)
        val == parse("parseAssignment", advance(expr.p).p)
    IN IF expr.err # NoError THEN expr
       ELSE IF ~currentTokenIs(expr.p, {"="}) THEN expr
       ELSE IF val.err # NoError THEN val
       ELSE IF expr.expr.k = "Variable"
            THEN Parsed(val.p, Assign(expr.expr.id, expr.expr.name, val.expr), NoError)
       ELSE Parsed(val.p, NoNode,
                   Errorf("invalid assignment target %T",
                          <<IF expr.expr.k = "nil" THEN "<nil>" ELSE expr.expr.k>>))

\* One turn of the for loop of parseCommaExpression, loop.expr being the
\* expressions read so far; a loop that has ended stays as it is.
CommaExpressionTurn(loop) ==
    IF loop.err # NoError \/ ~currentTokenIs(loop.p, {","}) THEN loop
    ELSE LET expr == parse("parseAssignment", advance(loop.p).p) IN
         IF expr.err # NoError THEN expr
         ELSE Parsed(expr.p, Append(loop.expr, expr.expr), NoError)

\* n turns of the loop or more, taken as eight runs of turns, each run over
\* before the next one starts.
CommaExpressionTurns(loop, n) ==
    LET run == (n + 7) \div 8
        r1 == Descend("for", "parseCommaExpression", loop, run)
        r2 == Descend("for", "parseCommaExpression", r1, run)
        r3 == Descend("for", "parseCommaExpression", r2, run)
        r4 == Descend("for", "parseCommaExpression", r3, run)
        r5 == Descend("for", "parseCommaExpression", r4, run)
        r6 == Descend("for", "parseCommaExpression", r5, run)
        r7 == Descend("for", "parseCommaExpression", r6, run)
    IN IF n = 0 \/ loop.err # NoError \/ ~currentTokenIs(loop.p, {","}) THEN loop
       ELSE IF n = 1 THEN CommaExpressionTurn(loop)
       ELSE IF r1.err # NoError THEN r1
       ELSE IF r2.err # NoError THEN r2
       ELSE IF r3.err # NoError THEN r3
       ELSE IF r4.err # NoError THEN r4
       ELSE IF r5.err # NoError THEN r5
       ELSE IF r6.err # NoError THEN r6
       ELSE IF r7.err # NoError THEN r7
       ELSE Descend("for", "parseCommaExpression", r7, run)

\* The for loop of parseCommaExpression.  A turn that does not end the loop
\* takes the comma and at least one token more, which bounds the turns.
CommaExpressionLoop(p, expressions) ==
    LET loop == Descend("for", "parseCommaExpression", Parsed(p, expressions, NoError),
                        (Len(p.tokens) - p.current) \div 2 + 1)
    IN IF loop.err # NoError THEN loop ELSE Parsed(loop.p, Comma(loop.expr), NoError)

parseCommaExpression(p) ==
    LET expr == parse("parseAssignment", p) IN
    IF expr.err # NoError THEN expr
    ELSE IF ~currentTokenIs(expr.p, {","}) THEN expr
    ELSE CommaExpressionLoop(expr.p, <<expr.expr>>)

\* A statement's parse result is [p, expr, err] too, expr the statement.
parseVarDeclaration(p) ==
    LET name == advance(advance(p).p)
        initializer == IF currentTokenIs(name.p, {"="})
                       THEN parseExpression(advance(name.p).p)
                       ELSE Parsed(name.p, NoNode, NoError)
        semicolon == consume(initializer.p, ";", "expect ; after variable declaration.")
    IN IF ~currentTokenIs(p, {"var"})
       THEN Parsed(p, NoNode, Errorf("expected var but got token %s", <<currentToken(p).type>>))
       ELSE IF ~currentTokenIs(advance(p).p, {"IDENTIFIER"})
            THEN Parsed(advance(p).p, NoNode,
                     Errorf("expected identifier but got token %s",
                            <<currentToken(advance(p).p).type>>))
       ELSE IF initializer.err # NoError THEN initializer
       ELSE IF semicolon.err # NoError THEN Parsed(semicolon.p, NoNode, semicolon.err)
       ELSE Parsed(semicolon.p, VarStatement(name.token.literal.s, initializer.expr), NoError)

parsePrintStatement(p) ==
    LET expr == parseExpression(advance(p).p)
        semicolon == consume(expr.p, ";", "expect ; after value.")
    IN IF ~currentTokenIs(p, {"print"})
       THEN Parsed(p, NoNode, Errorf("expected print but got token %s", <<currentToken(p).type>>))
       ELSE IF expr.err # NoError THEN expr
       ELSE IF semicolon.err # NoError THEN Parsed(semicolon.p, NoNode, semicolon.err)
       ELSE Parsed(semicolon.p, PrintStatement(expr.expr), NoError)

parseExpressionStatement(p) ==
    LET expr == parseExpression(p)
        semicolon == consume(expr.p, ";", "expect ; after expression.")
    IN IF expr.err # NoError THEN expr
       ELSE IF semicolon.err # NoError THEN Parsed(semicolon.p, NoNode, semicolon.err)
       ELSE Parsed(semicolon.p, ExpressionStatement(expr.expr), NoError)

\* The for loop of parseBlockStatement and the advance() after it.  It ends
\* at a }, not at the end of the tokens: there ParseDeclaration fails.
BlockStatementLoop(p, statements) ==
    IF currentTokenIs(p, {"}"}) THEN Parsed(advance(p).p, BlockStatement(statements), NoError)
    ELSE LET stmt == parse("ParseDeclaration", p) IN
         IF stmt.err # NoError THEN Parsed(stmt.p, NoNode, stmt.err)
         ELSE Descend("for", "parseBlockStatement", stmt.p, Append(statements, stmt.expr))

parseBlockStatement(p) ==
    IF ~currentTokenIs(p, {"{"})
    THEN Parsed(p, NoNode, Errorf("expected { but got token %s", <<currentToken(p).type>>))
    ELSE Descend("for", "parseBlockStatement", advance(p).p, << >>)

\* The err that ParseStatement returns for the body is not looked at.
parseForStatement_IncrementFirst(p) ==
    LET open == consume(advance(p).p, "(", "expect ( after for")
        initializer == IF currentTokenIs(open.p, {";"})
                       THEN Parsed(advance(open.p).p, NoNode, NoError)
                       ELSE IF currentTokenIs(open.p, {"var"})
                       THEN parse("parseVarDeclaration", open.p)
                       ELSE parse("parseExpressionStatement", open.p)
        condition == IF ~currentTokenIs(initializer.p, {";"})
                     THEN parseExpression(initializer.p)
                     ELSE Parsed(initializer.p, NoNode, NoError)
        semicolon == consume(condition.p, ";", "expect ; after loop condition.")
        increment == IF ~currentTokenIs(semicolon.p, {")"}) THEN parseExpression(semicolon.p)
                     ELSE Parsed(semicolon.p, NoNode, NoError)
        close == consume(increment.p, ")", "expect ) after loop clauses.")
        body == parse("ParseStatement", close.p)
        stepped == IF increment.expr # NoNode
                   THEN BlockStatement(<<ExpressionStatement(increment.expr), body.expr>>)
                   ELSE body.expr
        while == WhileStatement(IF condition.expr = NoNode THEN Literal(Bool(TRUE))
                                ELSE condition.expr, stepped)
    IN IF ~currentTokenIs(p, {"for"})
       THEN Parsed(p, NoNode, Errorf("expected for but got token %s", <<currentToken(p).type>>))
       ELSE IF open.err # NoError THEN Parsed(open.p, NoNode, open.err)
       ELSE IF initializer.err # NoError THEN initializer
       ELSE IF condition.err # NoError THEN condition
       ELSE IF semicolon.err # NoError THEN Parsed(semicolon.p, NoNode, semicolon.err)
       ELSE IF increment.err # NoError THEN increment
       ELSE IF close.err # NoError THEN Parsed(close.p, NoNode, close.err)
       ELSE Parsed(body.p,
                   IF initializer.expr # NoNode THEN BlockStatement(<<initializer.expr, while>>)
                   ELSE while,
                   NoError)

parseForStatement(p) ==
    LET open == consume(advance(p).p, "(", "expect ( after for")
        initializer == IF currentTokenIs(open.p, {";"})
                       THEN Parsed(advance(open.p).p, NoNode, NoError)
                       ELSE IF currentTokenIs(open.p, {"var"})
                       THEN parse("parseVarDeclaration", open.p)
                       ELSE parse("parseExpressionStatement", open.p)
        condition == IF ~currentTokenIs(initializer.p, {";"})
                     THEN parseExpression(initializer.p)
                     ELSE Parsed(initializer.p, NoNode, NoError)
        semicolon == consume(condition.p, ";", "expect ; after loop condition.")
        increment == IF ~currentTokenIs(semicolon.p, {")"}) THEN parseExpression(semicolon.p)
                     ELSE Parsed(semicolon.p, NoNode, NoError)
        close == consume(increment.p, ")", "expect ) after loop clauses.")
        body == parse("ParseStatement", close.p)
        stepped == IF increment.expr # NoNode
                   THEN BlockStatement(<<body.expr, ExpressionStatement(increment.expr)>>)
                   ELSE body.expr
        while == WhileStatement(IF condition.expr = NoNode THEN Literal(Bool(TRUE))
                                ELSE condition.expr, stepped)
    IN IF ~currentTokenIs(p, {"for"})
       THEN Parsed(p, NoNode, Errorf("expected for but got token %s", <<currentToken(p).type>>))
       ELSE IF open.err # NoError THEN Parsed(open.p, NoNode, open.err)
       ELSE IF initializer.err # NoError THEN initializer
       ELSE IF condition.err # NoError THEN condition
       ELSE IF semicolon.err # NoError THEN Parsed(semicolon.p, NoNode, semicolon.err)
       ELSE IF increment.err # NoError THEN increment
       ELSE IF close.err # NoError THEN Parsed(close.p, NoNode, close.err)
       ELSE Parsed(body.p,
                   IF initializer.expr # NoNode THEN BlockStatement(<<initializer.expr, while>>)
                   ELSE while,
                   NoError)

\* Of the keywords that open a statement, print and for are parsed here.
ParseStatement(p) ==
    CASE currentToken(p).type = "print" -> parse("parsePrintStatement", p)
      [] currentToken(p).type = "{" -> parse("parseBlockStatement", p)
      [] currentToken(p).type = "for" -> parse("parseForStatement", p)
      [] OTHER -> parse("parseExpressionStatement", p)

\* No token parsed here is a fun.
ParseDeclaration(p) ==
    IF currentTokenIs(p, {"var"}) THEN parse("parseVarDeclaration", p)
    ELSE parse("ParseStatement", p)

\* The for loop of Parse; on an error the statements are nil.
ParseLoop(p, statements) ==
    IF p.current # Len(p.tokens) /\ ~currentTokenIs(p, {"EOF"})
    THEN LET stmt == parse("ParseDeclaration", p) IN
         IF stmt.err # NoError THEN Parsed(stmt.p, << >>, stmt.err)
         ELSE Descend("for", "Parse", stmt.p, Append(statements, stmt.expr))
    ELSE Parsed(p, statements, NoError)

Parse(p) == Descend("for", "Parse", p, << >>)

BinaryLevels == {"ParseEquality", "parseComparison", "parseTerm", "parseFactor"}

\* what is "call" for a call of the function named by level, and "for" for a
\* turn of its loop, left being what the loop has built so far.
Descend(what, level, p, left) ==
    CASE what = "for" /\ level \in BinaryLevels -> BinaryLoop(level, p, left)
      [] what = "for" /\ level = "parseCall" -> CallLoop(p, left)
      [] what = "for" /\ level = "parseCommaExpression" -> CommaExpressionTurns(p, left)
      [] what = "for" /\ level = "parseBlockStatement" -> BlockStatementLoop(p, left)
      [] what = "for" /\ level = "Parse" -> ParseLoop(p, left)
      [] what = "call" /\ level \in BinaryLevels -> BinaryLevel(level, p)
      [] what = "call" /\ level = "parseUnary" -> UnaryLevel(p)
      [] what = "call" /\ level = "parseCall" -> parseCall(p)
      [] what = "call" /\ level = "parseTernary" -> parseTernary(p)
      [] what = "call" /\ level = "parseAssignment" -> parseAssignment(p)
      [] what = "call" /\ level = "parseCommaExpression" -> parseCommaExpression(p)
      [] what = "call" /\ level = "parsePrimary" -> parsePrimary(p)
      [] what = "call" /\ level = "finishCall" -> finishCall(p, left)
      [] what = "call" /\ level = "parseVarDeclaration" -> parseVarDeclaration(p)
      [] what = "call" /\ level = "parsePrintStatement" -> parsePrintStatement(p)
      [] what = "call" /\ level = "parseExpressionStatement" -> parseExpressionStatement(p)
      [] what = "call" /\ level = "parseBlockStatement" -> parseBlockStatement(p)
      [] what = "call" /\ level = "parseForStatement" -> parseForStatement(p)
      [] what = "call" /\ level = "ParseStatement" -> ParseStatement(p)
      [] what = "call" /\ level = "ParseDeclaration" -> ParseDeclaration(p)

-----------------------------------------------------------------------------
(* Programs.  A program is named by a descriptor [name, op, a, b, n, m];   *)
(* Statements gives its AST, as the parser builds it for the source text   *)
(* quoted with each program.  a and b are values written as operands.      *)

\* Functions of the generated programs declare 0..MaxArity parameters.
MaxArity == 2

Names == <<"p1", "p2", "p3", "p4", "p5">>

LiteralValues == {Nil, Bool(TRUE), Bool(FALSE), Str(""), Str("a")} \cup {Num(i) : i \in 0..MaxNum}

\* Operands add the literal 0.5, a negative number and a function value.
Operands == LiteralValues \cup {Float(1, 2), Num(-1), ClockFunction}

BinaryOperators == {"+", "-", "*", "/", ">", ">=", "<", "<=", "==", "!="}

\* The expression whose value is v: a literal, -1 as a unary minus, the
\* native function as a read of the global clock.
Operand(id, v) ==
    IF v.t = "*interpreter.clockFunction" THEN Variable(id, "clock")
    ELSE IF v.t = "float64" /\ v.n < 0 THEN Unary("-", Literal(Float(-v.n, v.d)))
    ELSE Literal(v)

Program(name, op, a, b, n, m) == [name |-> name, op |-> op, a |-> a, b |-> b, n |-> n, m |-> m]

Fixed(name) == Program(name, "", Nil, Nil, 0, 0)

\* print a op b;
BinaryProgram(p) == <<PrintStatement(Binary(Operand(1, p.a), p.op, Operand(2, p.b)))>>

\* var g = 0; print a op (g = 1); print g;
LogicalProgram(p) ==
    <<VarStatement("g", Literal(Num(0))),
      PrintStatement(Logical(Operand(1, p.a), p.op, Grouping(Assign(2, "g", Literal(Num(1)))))),
      PrintStatement(Variable(3, "g"))>>

\* { var a = A; { var a = B; } print a; }
ShadowBlockProgram(p) ==
    <<BlockStatement(<<VarStatement("a", Literal(p.a)),
                       BlockStatement(<<VarStatement("a", Literal(p.b))>>),
                       PrintStatement(Variable(1, "a"))>>)>>

\* var a = A; { var a = B; print a; } print a;
ShadowGlobalProgram(p) ==
    <<VarStatement("a", Literal(p.a)),
      BlockStatement(<<VarStatement("a", Literal(p.b)), PrintStatement(Variable(1, "a"))>>),
      PrintStatement(Variable(2, "a"))>>

\* { var a = A; } print a;
EscapeProgram(p) ==
    <<BlockStatement(<<VarStatement("a", Literal(p.a))>>), PrintStatement(Variable(1, "a"))>>

\* { var a = A; { print a; } }
NestedReadProgram(p) ==
    <<BlockStatement(<<VarStatement("a", Literal(p.a)),
                       BlockStatement(<<PrintStatement(Variable(1, "a"))>>)>>)>>

\* fun make() { var x = 0; fun inc() { x = x + 1; return x; } return inc; }
\* var f = make(); print f(); print f();
CounterProgram ==
    <<FunctionStatement("make", << >>, BlockStatement(
          <<VarStatement("x", Literal(Num(0))),
            FunctionStatement("inc", << >>, BlockStatement(
                <<ExpressionStatement(Assign(1, "x", Binary(Variable(2, "x"), "+", Literal(Num(1))))),
                  ReturnStatement(Variable(3, "x"))>>)),
            ReturnStatement(Variable(4, "inc"))>>)),
      VarStatement("f", Call(Variable(5, "make"), << >>)),
      PrintStatement(Call(Variable(6, "f"), << >>)),
      PrintStatement(Call(Variable(7, "f"), << >>))>>

\* var x = 2; fun make() { var x = 0; fun inc() { x = x + 1; return x; }
\* print inc(); print x; } make(); print x;
CounterShadowProgram ==
    <<VarStatement("x", Literal(Num(2))),
      FunctionStatement("make", << >>, BlockStatement(
          <<VarStatement("x", Literal(Num(0))),
            FunctionStatement("inc", << >>, BlockStatement(
                <<ExpressionStatement(Assign(1, "x", Binary(Variable(2, "x"), "+", Literal(Num(1))))),
                  ReturnStatement(Variable(3, "x"))>>)),
            PrintStatement(Call(Variable(4, "inc"), << >>)),
            PrintStatement(Variable(5, "x"))>>)),
      ExpressionStatement(Call(Variable(6, "make"), << >>)),
      PrintStatement(Variable(7, "x"))>>

\* fun f(a) { print a; } f(A);
ParamReadProgram(p) ==
    <<FunctionStatement("f", <<"a">>, BlockStatement(<<PrintStatement(Variable(1, "a"))>>)),
      ExpressionStatement(Call(Variable(2, "f"), <<Literal(p.a)>>))>>

\* var a = A; fun f(a) { a = B; } f(0); print a;
ParamAssignProgram(p) ==
    <<VarStatement("a", Literal(p.a)),
      FunctionStatement("f", <<"a">>, BlockStatement(
          <<ExpressionStatement(Assign(1, "a", Literal(p.b)))>>)),
      ExpressionStatement(Call(Variable(2, "f"), <<Literal(Num(0))>>)),
      PrintStatement(Variable(3, "a"))>>

\* fun f(a) { fun g() { a = 1; } g(); } f(0);
NestedAssignProgram ==
    <<FunctionStatement("f", <<"a">>, BlockStatement(
          <<FunctionStatement("g", << >>, BlockStatement(
                <<ExpressionStatement(Assign(1, "a", Literal(Num(1))))>>)),
            ExpressionStatement(Call(Variable(2, "g"), << >>))>>)),
      ExpressionStatement(Call(Variable(3, "f"), <<Literal(Num(0))>>))>>

\* fun f() { var a = A; print a; a = B; print a; } f();
LocalProgram(p) ==
    <<FunctionStatement("f", << >>, BlockStatement(
          <<VarStatement("a", Literal(p.a)),
            PrintStatement(Variable(1, "a")),
            ExpressionStatement(Assign(2, "a", Literal(p.b))),
            PrintStatement(Variable(3, "a"))>>)),
      ExpressionStatement(Call(Variable(4, "f"), << >>))>>

\* fun f() { { if (A) { return B; } print 1; } print 2; } print f();
ReturnNestedProgram(p) ==
    <<FunctionStatement("f", << >>, BlockStatement(
          <<BlockStatement(
                <<IfStatement(Literal(p.a),
                              BlockStatement(<<ReturnStatement(Literal(p.b))>>), NoNode),
                  PrintStatement(Literal(Num(1)))>>),
            PrintStatement(Literal(Num(2)))>>)),
      PrintStatement(Call(Variable(1, "f"), << >>))>>

\* fun f() { if (A) print 1; else { { return B; } print 2; } print 0; } print f();
ReturnElseProgram(p) ==
    <<FunctionStatement("f", << >>, BlockStatement(
          <<IfStatement(Literal(p.a),
                        PrintStatement(Literal(Num(1))),
                        BlockStatement(<<BlockStatement(<<ReturnStatement(Literal(p.b))>>),
                                         PrintStatement(Literal(Num(2)))>>)),
            PrintStatement(Literal(Num(0)))>>)),
      PrintStatement(Call(Variable(1, "f"), << >>))>>

\* fun f() { if (A) { return; } print 1; } print f();
ReturnBareProgram(p) ==
    <<FunctionStatement("f", << >>, BlockStatement(
          <<IfStatement(Literal(p.a), BlockStatement(<<ReturnStatement(NoNode)>>), NoNode),
            PrintStatement(Literal(Num(1)))>>)),
      PrintStatement(Call(Variable(1, "f"), << >>))>>

\* var i = 0; fun f() { while (i < N) { i = i + 1; return A; } return B; }
\* print f(); print i;
ReturnWhileProgram(p) ==
    <<VarStatement("i", Literal(Num(0))),
      FunctionStatement("f", << >>, BlockStatement(
          <<WhileStatement(Binary(Variable(1, "i"), "<", Literal(Num(p.n))),
                           BlockStatement(
                               <<ExpressionStatement(Assign(2, "i",
                                     Binary(Variable(3, "i"), "+", Literal(Num(1))))),
                                 ReturnStatement(Literal(p.a))>>)),
            ReturnStatement(Literal(p.b))>>)),
      PrintStatement(Call(Variable(4, "f"), << >>)),
      PrintStatement(Variable(5, "i"))>>

\* fun f() { for (; true;) { return A; } } print f();
\* The parser desugars the loop to While(true, body).
ReturnForProgram(p) ==
    <<FunctionStatement("f", << >>, BlockStatement(
          <<WhileStatement(Literal(Bool(TRUE)),
                           BlockStatement(<<ReturnStatement(Literal(p.a))>>))>>)),
      PrintStatement(Call(Variable(1, "f"), << >>))>>

Parameters(n) == SubSeq(Names, 1, n)

Arguments(m) == [i \in 1..m |-> Literal(Num(i))]

SetG == BlockStatement(<<ExpressionStatement(Assign(1, "g", Literal(Num(1))))>>)

\* var g = 0; fun f(p1, .., pn) { g = 1; } f(1, .., m);
ArityFunProgram(p) ==
    <<VarStatement("g", Literal(Num(0))),
      FunctionStatement("f", Parameters(p.n), SetG),
      ExpressionStatement(Call(Variable(2, "f"), Arguments(p.m)))>>

\* var g = 0; var f = fun (p1, .., pn) { g = 1; }; f(1, .., m);
ArityAnonProgram(p) ==
    <<VarStatement("g", Literal(Num(0))),
      VarStatement("f", FunctionExpression(Parameters(p.n), SetG)),
      ExpressionStatement(Call(Variable(2, "f"), Arguments(p.m)))>>

\* var g = 0; print clock(1, .., m);
ArityClockProgram(p) ==
    <<VarStatement("g", Literal(Num(0))),
      PrintStatement(Call(Variable(2, "clock"), Arguments(p.m)))>>

\* var g = 0; class K { init(p1, .., pn) { g = 1; } } K(1, .., m);
ArityClassProgram(p) ==
    <<VarStatement("g", Literal(Num(0))),
      ClassStatement("K", NoNode, <<FunctionStatement("init", Parameters(p.n), SetG)>>),
      ExpressionStatement(Call(Variable(2, "K"), Arguments(p.m)))>>

\* var g = 0; class K { init(p1, .., pn) { g = 1; } } class L < K { } L(1, .., m);
ArityInheritProgram(p) ==
    <<VarStatement("g", Literal(Num(0))),
      ClassStatement("K", NoNode, <<FunctionStatement("init", Parameters(p.n), SetG)>>),
      ClassStatement("L", Variable(3, "K"), << >>),
      ExpressionStatement(Call(Variable(2, "L"), Arguments(p.m)))>>

\* var g = 0; class K { } K(1, .., m);
ArityBareProgram(p) ==
    <<VarStatement("g", Literal(Num(0))),
      ClassStatement("K", NoNode, << >>),
      ExpressionStatement(Call(Variable(2, "K"), Arguments(p.m)))>>

\* var g = 0; print A ? (g = 1) : (g = 2); print g;
TernaryProgram(p) ==
    <<VarStatement("g", Literal(Num(0))),
      PrintStatement(Condition(Operand(1, p.a),
                               Grouping(Assign(2, "g", Literal(Num(1)))),
                               Grouping(Assign(3, "g", Literal(Num(2)))))),
      PrintStatement(Variable(4, "g"))>>

\* var a = A == a;
OwnInitializer(p) == VarStatement("a", Binary(Literal(p.a), "==", Variable(1, "a")))

\* block:    { var a = A == a; }
\* shadow:   var a = 1; { var a = A == a; }
\* function: fun f() { var a = A == a; print a; } f();
\* global:   var a = A == a;
\* ok:       { var a = A; var b = a; print b; }
OwnInitializerProgram(p) ==
    CASE p.op = "block" -> <<BlockStatement(<<OwnInitializer(p)>>)>>
      [] p.op = "shadow" ->
            <<VarStatement("a", Literal(Num(1))), BlockStatement(<<OwnInitializer(p)>>)>>
      [] p.op = "function" ->
            <<FunctionStatement("f", << >>, BlockStatement(
                  <<OwnInitializer(p), PrintStatement(Variable(2, "a"))>>)),
              ExpressionStatement(Call(Variable(3, "f"), << >>))>>
      [] p.op = "global" -> <<OwnInitializer(p)>>
      [] p.op = "ok" ->
            <<BlockStatement(<<VarStatement("a", Literal(p.a)),
                               VarStatement("b", Variable(1, "a")),
                               PrintStatement(Variable(2, "b"))>>)>>

\* varVar:   { var a = A; var a = 2; }
\* usedVar:  { var a = A; print a; var a = 2; }
\* varFun:   { var a = A; fun a() {} }
\* funVar:   { fun a() {} var a = A; }
\* param:    fun f(a, a) {}
\* function: fun f() { var a = A; var a = 2; }
\* global:   var a = A; var a = 2; print a;
\* inner:    { var a = A; { var a = 2; print a; } print a; }
RedeclareProgram(p) ==
    LET first == VarStatement("a", Literal(p.a))
        second == VarStatement("a", Literal(Num(2)))
        fun == FunctionStatement("a", << >>, BlockStatement(<< >>))
    IN CASE p.op = "varVar" -> <<BlockStatement(<<first, second>>)>>
         [] p.op = "usedVar" ->
               <<BlockStatement(<<first, PrintStatement(Variable(1, "a")), second>>)>>
         [] p.op = "varFun" -> <<BlockStatement(<<first, fun>>)>>
         [] p.op = "funVar" -> <<BlockStatement(<<fun, first>>)>>
         [] p.op = "param" ->
               <<FunctionStatement("f", <<"a", "a">>, BlockStatement(<< >>))>>
         [] p.op = "function" ->
               <<FunctionStatement("f", << >>, BlockStatement(<<first, second>>))>>
         [] p.op = "global" -> <<first, second, PrintStatement(Variable(1, "a"))>>
         [] p.op = "inner" ->
               <<BlockStatement(<<first,
                     BlockStatement(<<second, PrintStatement(Variable(1, "a"))>>),
                     PrintStatement(Variable(2, "a"))>>)>>

\* unused:      fun f() { var a = A; } f();
\* assigned:    fun f() { var a = A; a = 1; } f();
\* used:        fun f() { var a = A; print a; } f();
\* nestedBlock: fun f() { var a = A; { print a; } } f();
\* closure:     fun f() { var a = A; fun g() { print a; } g(); } f();
\* topBlock:    { var a = A; }
\* innerBlock:  fun f() { { var a = A; } } f();
UnusedLocalProgram(p) ==
    LET a == VarStatement("a", Literal(p.a))
        read == PrintStatement(Variable(1, "a"))
        f(body) == <<FunctionStatement("f", << >>, BlockStatement(body)),
                     ExpressionStatement(Call(Variable(4, "f"), << >>))>>
    IN CASE p.op = "unused" -> f(<<a>>)
         [] p.op = "assigned" ->
               f(<<a, ExpressionStatement(Assign(1, "a", Literal(Num(1))))>>)
         [] p.op = "used" -> f(<<a, read>>)
         [] p.op = "nestedBlock" -> f(<<a, BlockStatement(<<read>>)>>)
         [] p.op = "closure" ->
               f(<<a, FunctionStatement("g", << >>, BlockStatement(<<read>>)),
                   ExpressionStatement(Call(Variable(2, "g"), << >>))>>)
         [] p.op = "topBlock" -> <<BlockStatement(<<a>>)>>
         [] p.op = "innerBlock" -> f(<<BlockStatement(<<a>>)>>)

\* conflict:     fun f(a) { var a = A; }
\* conflictUsed: fun f(a) { var a = A; print a; }
\* other:        fun f(a) { var b = 1; var a = A; }
\* otherUsed:    fun f(a) { var b = 1; print b; var a = A; }
\* none:         fun f(a) { var b = A; print b; } f(1);
\* nested:       fun f() { var x = 1; print x; { var x = A; print x; } } f();
ParameterConflictProgram(p) ==
    LET a == VarStatement("a", Literal(p.a))
        b == VarStatement("b", Literal(Num(1)))
        f(parameters, body) == FunctionStatement("f", parameters, BlockStatement(body))
    IN CASE p.op = "conflict" -> <<f(<<"a">>, <<a>>)>>
         [] p.op = "conflictUsed" -> <<f(<<"a">>, <<a, PrintStatement(Variable(1, "a"))>>)>>
         [] p.op = "other" -> <<f(<<"a">>, <<b, a>>)>>
         [] p.op = "otherUsed" -> <<f(<<"a">>, <<b, PrintStatement(Variable(1, "b")), a>>)>>
         [] p.op = "none" ->
               <<f(<<"a">>, <<VarStatement("b", Literal(p.a)), PrintStatement(Variable(1, "b"))>>),
                 ExpressionStatement(Call(Variable(2, "f"), <<Literal(Num(1))>>))>>
         [] p.op = "nested" ->
               <<f(<< >>, <<VarStatement("x", Literal(Num(1))),
                            PrintStatement(Variable(1, "x")),
                            BlockStatement(<<VarStatement("x", Literal(p.a)),
                                             PrintStatement(Variable(2, "x"))>>)>>),
                 ExpressionStatement(Call(Variable(3, "f"), << >>))>>

\* top:            return A;
\* bare:           return;
\* block:          { return A; }
\* if:             if (true) return A;
\* function:       fun f() { return A; } print f();
\* after:          fun f() { return A; } return f();
\* nested:         fun f() { fun g() { return A; } return g(); } print f();
\* afterNested:    fun f() { fun g() { return A; } g(); } return 1;
\* anonymous:      var h = fun () { return A; }; print h();
\* afterAnonymous: var h = fun () { return A; }; return 1;
\* failed:         fun f() { var a = a; return A; }
TopLevelReturnProgram(p) ==
    LET ret == ReturnStatement(Literal(p.a))
        f == FunctionStatement("f", << >>, BlockStatement(<<ret>>))
        g == FunctionStatement("g", << >>, BlockStatement(<<ret>>))
        callG == Call(Variable(1, "g"), << >>)
        callF == Call(Variable(2, "f"), << >>)
        h == VarStatement("h", FunctionExpression(<< >>, BlockStatement(<<ret>>)))
    IN CASE p.op = "top" -> <<ret>>
         [] p.op = "bare" -> <<ReturnStatement(NoNode)>>
         [] p.op = "block" -> <<BlockStatement(<<ret>>)>>
         [] p.op = "if" -> <<IfStatement(Literal(Bool(TRUE)), ret, NoNode)>>
         [] p.op = "function" -> <<f, PrintStatement(callF)>>
         [] p.op = "after" -> <<f, ReturnStatement(callF)>>
         [] p.op = "nested" ->
               <<FunctionStatement("f", << >>, BlockStatement(<<g, ReturnStatement(callG)>>)),
                 PrintStatement(callF)>>
         [] p.op = "afterNested" ->
               <<FunctionStatement("f", << >>, BlockStatement(<<g, ExpressionStatement(callG)>>)),
                 ReturnStatement(Literal(Num(1)))>>
         [] p.op = "anonymous" -> <<h, PrintStatement(Call(Variable(3, "h"), << >>))>>
         [] p.op = "afterAnonymous" -> <<h, ReturnStatement(Literal(Num(1)))>>
         [] p.op = "failed" ->
               <<FunctionStatement("f", << >>, BlockStatement(
                     <<VarStatement("a", Variable(4, "a")), ret>>))>>

\* The longest superclass chain of the generated programs.
MaxChain == 3

\* Bit j of the mask n: class Kj declares the method.
Declares(n, j) == (n \div (2 ^ (j - 1))) % 2 = 1

KName(j) == <<"K1", "K2", "K3", "K4">>[j]

\* class Kj [< Kj-1] { [name() { return j; }] }
ChainClass(j, name, n) ==
    ClassStatement(KName(j),
        IF j = 1 THEN NoNode ELSE Variable(10 + j, KName(j - 1)),
        IF Declares(n, j)
        THEN <<FunctionStatement(name, << >>,
                   BlockStatement(<<ReturnStatement(Literal(Num(j)))>>))>>
        ELSE << >>)

\* class K1 {..} class K2 < K1 {..} ... print Km().m();
\* where bit j of n says whether Kj declares m() { return j; }.
MethodLookupProgram(p) ==
    [j \in 1..MaxChain |-> ChainClass(j, "m", p.n)]
    \o <<PrintStatement(Call(GetExpression(Call(Variable(1, KName(p.m)), << >>), "m"), << >>))>>

\* class K { m() { return 1; } } class L < K {} var i = K(); var j = L();
\* followed by
\* field:     i.f = A; print i.f;
\* last:      i.f = 1; i.f = A; print i.f;
\* shadow:    i.m = A; print i.m;
\* method:    print i.m();
\* bound:     print i.m;
\* inherited: j.f = A; print j.m();
\* undefined: i.f = A; print i.g;
\* other:     i.f = A; print j.f;
\* keeps:     i.f = 1; j.f = A; print i.f; print j.f;
PropertyProgram(p) ==
    LET i == Variable(1, "i")
        j == Variable(2, "j")
        set(object, name, value) ==
            ExpressionStatement(SetExpression(object, name, Literal(value)))
        get(object, name) == PrintStatement(GetExpression(object, name))
        call(object, name) == PrintStatement(Call(GetExpression(object, name), << >>))
    IN <<ClassStatement("K", NoNode,
             <<FunctionStatement("m", << >>,
                   BlockStatement(<<ReturnStatement(Literal(Num(1)))>>))>>),
         ClassStatement("L", Variable(3, "K"), << >>),
         VarStatement("i", Call(Variable(4, "K"), << >>)),
         VarStatement("j", Call(Variable(5, "L"), << >>))>>
       \o CASE p.op = "field" -> <<set(i, "f", p.a), get(i, "f")>>
            [] p.op = "last" -> <<set(i, "f", Num(1)), set(i, "f", p.a), get(i, "f")>>
            [] p.op = "shadow" -> <<set(i, "m", p.a), get(i, "m")>>
            [] p.op = "method" -> <<call(i, "m")>>
            [] p.op = "bound" -> <<get(i, "m")>>
            [] p.op = "inherited" -> <<set(j, "f", p.a), call(j, "m")>>
            [] p.op = "undefined" -> <<set(i, "f", p.a), get(i, "g")>>
            [] p.op = "other" -> <<set(i, "f", p.a), get(j, "f")>>
            [] p.op = "keeps" ->
                  <<set(i, "f", Num(1)), set(j, "f", p.a), get(i, "f"), get(j, "f")>>

\* init:    class K { init(a) { print 5; } } class L < K {}
\*          var i = K(A); var j = L(1); print i; print j;
\* noInit:  class K {} class L < K {} var i = K(); var j = L(); print i; print j;
\* tooFew:  class K { init(a) { print 5; } } class L < K {} print L();
\* tooMany: class K {} class L < K {} print L(A);
ConstructProgram(p) ==
    LET init == FunctionStatement("init", <<"a">>,
                    BlockStatement(<<PrintStatement(Literal(Num(5)))>>))
        K(methods) == ClassStatement("K", NoNode, methods)
        L == ClassStatement("L", Variable(1, "K"), << >>)
        new(name, class, arguments) == VarStatement(name, Call(Variable(2, class), arguments))
        show == <<PrintStatement(Variable(3, "i")), PrintStatement(Variable(4, "j"))>>
    IN CASE p.op = "init" ->
               <<K(<<init>>), L, new("i", "K", <<Literal(p.a)>>),
                 new("j", "L", <<Literal(Num(1))>>)>> \o show
         [] p.op = "noInit" ->
               <<K(<< >>), L, new("i", "K", << >>), new("j", "L", << >>)>> \o show
         [] p.op = "tooFew" ->
               <<K(<<init>>), L, PrintStatement(Call(Variable(2, "L"), << >>))>>
         [] p.op = "tooMany" ->
               <<K(<< >>), L, PrintStatement(Call(Variable(2, "L"), <<Literal(p.a)>>))>>

\* The most binary operators of a parsed expression.
MaxOperators == 3

\* What may stand before an operand: nothing, or one unary operator.
Prefixes == {<< >>, <<Token("-", Nil)>>, <<Token("!", Nil)>>}

\* The tokens of  o1 operators[1] o2 operators[2] ...  from operand i on,
\* where operand i is the number i behind prefixes[i].
Source(operators, prefixes, i) ==
    prefixes[i] \o <<Token("NUMBER", Num(i))>>
    \o (IF i > Len(operators) THEN << >>
        ELSE <<Token(operators[i], Nil)>> \o Source(operators, prefixes, i + 1))

\* The token sequences parsed: every chain of up to MaxOperators binary
\* operators over the numbers 1, 2, ..., with unary operators before the
\* operands in the chains shorter than that, and 1 > 2 != 2 > 3.
TokenSequences ==
    {Source(operators, prefixes, 1) :
        operators \in UNION {[1..k -> BinaryOperators] : k \in 0..MaxOperators},
        prefixes \in {[i \in 1..(MaxOperators + 1) |-> << >>]}}
    \cup
    UNION {{Source(operators, prefixes, 1) :
               operators \in [1..k -> BinaryOperators], prefixes \in [1..(k + 1) -> Prefixes]} :
           k \in 0..(MaxOperators - 1)}
    \cup
    {<<Token("NUMBER", Num(1)), Token(">", Nil), Token("NUMBER", Num(2)), Token("!=", Nil),
       Token("NUMBER", Num(2)), Token(">", Nil), Token("NUMBER", Num(3))>>}

\* The rung of a binary operator on the precedence ladder, loosest first.
Rung(operator) ==
    CASE operator \in {"!=", "=="} -> 1
      [] operator \in {">", ">=", "<", "<="} -> 2
      [] operator \in {"+", "-"} -> 3
      [] operator \in {"*", "/"} -> 4

\* The tree the ladder prescribes for a well-formed token sequence: its root
\* is the last of the loosest binary operators (an operator that follows a
\* number is binary), over the trees of what stands left and right of it; a
\* sequence without a binary operator is a number behind its unary operators.
Grouped(toks) ==
    LET binary == {i \in 2..Len(toks) : toks[i].type # "NUMBER" /\ toks[i - 1].type = "NUMBER"}
        loosest == {i \in binary : \A j \in binary : Rung(toks[i].type) <= Rung(toks[j].type)}
        root == Max(loosest)
    IN IF binary # {}
       THEN Binary(Grouped(SubSeq(toks, 1, root - 1)), toks[root].type,
                   Grouped(SubSeq(toks, root + 1, Len(toks))))
       ELSE IF toks[1].type = "NUMBER" THEN Literal(toks[1].literal)
       ELSE Unary(toks[1].type, Grouped(Tail(toks)))

\* The tokens of an identifier, of a number, and of a keyword or punctuation.
Id(name) == Token("IDENTIFIER", Str(name))

Number(n) == Token("NUMBER", Num(n))

Sym(type) == Token(type, Nil)

\* <left-hand side> = N, written with
\* variable: a = N          chain:    a = b = N       get:   a.b = N
\* literal:  1 = N          grouping: (a) = N         unary: -a = N
\* binary:   a + b = N      call:     a() = N
AssignmentTokens(p) ==
    (CASE p.op = "variable" -> <<Id("a")>>
       [] p.op = "chain" -> <<Id("a"), Sym("="), Id("b")>>
       [] p.op = "get" -> <<Id("a"), Sym("."), Id("b")>>
       [] p.op = "literal" -> <<Number(1)>>
       [] p.op = "grouping" -> <<Sym("("), Id("a"), Sym(")")>>
       [] p.op = "unary" -> <<Sym("-"), Id("a")>>
       [] p.op = "binary" -> <<Id("a"), Sym("+"), Id("b")>>
       [] p.op = "call" -> <<Id("a"), Sym("("), Sym(")")>>)
    \o <<Sym("="), Number(p.n)>>

\* The clauses the for statement of p is written with: p.op tells the
\* initializer, p.m the two others.
HasCondition(p) == p.m % 2 = 1

HasIncrement(p) == p.m \div 2 = 1

InitializerTokens(p) ==
    CASE p.op = "expression" -> <<Id("i"), Sym("="), Number(0), Sym(";")>>
      [] p.op = "var" -> <<Sym("var"), Id("i"), Sym("="), Number(0), Sym(";")>>
      [] p.op = "none" -> <<Sym(";")>>

ConditionTokens(p) == IF HasCondition(p) THEN <<Id("i"), Sym("<"), Number(p.n)>> ELSE << >>

IncrementTokens(p) ==
    IF HasIncrement(p) THEN <<Id("i"), Sym("="), Id("i"), Sym("+"), Number(1)>> ELSE << >>

Declaration == <<Sym("var"), Id("i"), Sym("="), Number(0), Sym(";")>>

\* var i = 0; for (<initializer> <condition>; <increment>) print i;
ForTokens(p) ==
    Declaration \o <<Sym("for"), Sym("(")>> \o InitializerTokens(p) \o ConditionTokens(p)
    \o <<Sym(";")>> \o IncrementTokens(p) \o <<Sym(")"), Sym("print"), Id("i"), Sym(";")>>

\* The numbers of arguments a call is written with: few, and around the cap.
ArgumentCounts == {0, 1, 2, MaxArgumentCount - 1, MaxArgumentCount, MaxArgumentCount + 1}

\* f(1, 1, ..., 1) with p.n arguments.
CallTokens(p) ==
    <<Id("f"), Sym("(")>>
    \o [i \in 1..(IF p.n = 0 THEN 0 ELSE 2 * p.n - 1) |->
           IF i % 2 = 1 THEN Number(1) ELSE Sym(",")]
    \o <<Sym(")")>>

\* Programs in which a nested construct cannot be parsed.
\* expression: print ;              paren:     print (1;
\* semicolon:  print 1              block:     { print ; }
\* later:      print ; print 2;     arguments: f(1 2);
\* unclosed:   f(1; print 2;        many:      f(1, ..., 1); with 256 arguments
\* body:       for (;;) print 1     bodyLater: for (;;) print ; print 2;
BrokenTokens(p) ==
    CASE p.op = "expression" -> <<Sym("print"), Sym(";")>>
      [] p.op = "paren" -> <<Sym("print"), Sym("("), Number(1), Sym(";")>>
      [] p.op = "semicolon" -> <<Sym("print"), Number(1)>>
      [] p.op = "block" -> <<Sym("{"), Sym("print"), Sym(";"), Sym("}")>>
      [] p.op = "later" -> <<Sym("print"), Sym(";"), Sym("print"), Number(2), Sym(";")>>
      [] p.op = "arguments" -> <<Id("f"), Sym("("), Number(1), Number(2), Sym(")"), Sym(";")>>
      [] p.op = "unclosed" ->
            <<Id("f"), Sym("("), Number(1), Sym(";"), Sym("print"), Number(2), Sym(";")>>
      [] p.op = "many" ->
            CallTokens([p EXCEPT !.n = MaxArgumentCount + 1]) \o <<Sym(";")>>
      [] p.op = "body" ->
            <<Sym("for"), Sym("("), Sym(";"), Sym(";"), Sym(")"), Sym("print"), Number(1)>>
      [] p.op = "bodyLater" ->
            <<Sym("for"), Sym("("), Sym(";"), Sym(";"), Sym(")"), Sym("print"), Sym(";"),
              Sym("print"), Number(2), Sym(";")>>

\* The programs given as tokens, which have no statements before they are
\* parsed: those parsed as one expression, and the
\* token sequences of each.
ExpressionPrograms == {"parse", "parseAssign", "parseCall"}

StatementPrograms == {"for", "broken"}

Sources(p) ==
    CASE p.name = "parse" -> TokenSequences
      [] p.name = "parseAssign" -> {AssignmentTokens(p)}
      [] p.name = "parseCall" -> {CallTokens(p)}
      [] p.name = "for" -> {ForTokens(p)}
      [] p.name = "broken" -> {BrokenTokens(p)}
      [] OTHER -> {<< >>}

\* block:  { { print -A; } } print 0;
\* call:   fun f() { { print -A; } } f(); print 0;
\* return: fun f() { { return -A; } } print f(); print 0;
FramesProgram(p) ==
    LET negated == Unary("-", Literal(p.a))
        f(statement) == FunctionStatement("f", << >>,
                                          BlockStatement(<<BlockStatement(<<statement>>)>>))
        call == Call(Variable(1, "f"), << >>)
        last == PrintStatement(Literal(Num(0)))
    IN CASE p.op = "block" ->
                <<BlockStatement(<<BlockStatement(<<PrintStatement(negated)>>)>>), last>>
         [] p.op = "call" -> <<f(PrintStatement(negated)), ExpressionStatement(call), last>>
         [] p.op = "return" -> <<f(ReturnStatement(negated)), PrintStatement(call), last>>

\* var:   var a = -A; print 0;
\* if:    if (-A) print 1; print 0;
\* while: while (-A) print 1; print 0;
RaiseProgram(p) ==
    LET negated == Unary("-", Literal(p.a))
        one == PrintStatement(Literal(Num(1)))
        last == PrintStatement(Literal(Num(0)))
    IN CASE p.op = "var" -> <<VarStatement("a", negated), last>>
         [] p.op = "if" -> <<IfStatement(negated, one, NoNode), last>>
         [] p.op = "while" -> <<WhileStatement(negated, one), last>>

\* init: class K { init() { -A; } } print K(); print 0;
\* get:  print (-A).f; print 0;
\* set:  (-A).f = 1; print 0;
PropagateProgram(p) ==
    LET negated == Unary("-", Literal(p.a))
        init == FunctionStatement("init", << >>,
                                  BlockStatement(<<ExpressionStatement(negated)>>))
        last == PrintStatement(Literal(Num(0)))
    IN CASE p.op = "init" ->
                <<ClassStatement("K", NoNode, <<init>>),
                  PrintStatement(Call(Variable(1, "K"), << >>)), last>>
         [] p.op = "get" -> <<PrintStatement(GetExpression(negated, "f")), last>>
         [] p.op = "set" ->
                <<ExpressionStatement(SetExpression(negated, "f", Literal(Num(1)))), last>>

Statements(p) ==
    CASE p.name = "binary" -> BinaryProgram(p)
      [] p.name = "logical" -> LogicalProgram(p)
      [] p.name = "shadowBlock" -> ShadowBlockProgram(p)
      [] p.name = "shadowGlobal" -> ShadowGlobalProgram(p)
      [] p.name = "escape" -> EscapeProgram(p)
      [] p.name = "nestedRead" -> NestedReadProgram(p)
      [] p.name = "counter" -> CounterProgram
      [] p.name = "counterShadow" -> CounterShadowProgram
      [] p.name = "paramRead" -> ParamReadProgram(p)
      [] p.name = "paramAssign" -> ParamAssignProgram(p)
      [] p.name = "nestedAssign" -> NestedAssignProgram
      [] p.name = "local" -> LocalProgram(p)
      [] p.name = "returnNested" -> ReturnNestedProgram(p)
      [] p.name = "returnElse" -> ReturnElseProgram(p)
      [] p.name = "returnBare" -> ReturnBareProgram(p)
      [] p.name = "returnWhile" -> ReturnWhileProgram(p)
      [] p.name = "returnFor" -> ReturnForProgram(p)
      [] p.name = "arityFun" -> ArityFunProgram(p)
      [] p.name = "arityAnon" -> ArityAnonProgram(p)
      [] p.name = "arityClock" -> ArityClockProgram(p)
      [] p.name = "arityClass" -> ArityClassProgram(p)
      [] p.name = "arityInherit" -> ArityInheritProgram(p)
      [] p.name = "arityBare" -> ArityBareProgram(p)
      [] p.name = "ternary" -> TernaryProgram(p)
      [] p.name = "ownInit" -> OwnInitializerProgram(p)
      [] p.name = "redeclare" -> RedeclareProgram(p)
      [] p.name = "unused" -> UnusedLocalProgram(p)
      [] p.name = "conflict" -> ParameterConflictProgram(p)
      [] p.name = "returnTop" -> TopLevelReturnProgram(p)
      [] p.name = "method" -> MethodLookupProgram(p)
      [] p.name = "property" -> PropertyProgram(p)
      [] p.name = "construct" -> ConstructProgram(p)
      [] p.name = "frames" -> FramesProgram(p)
      [] p.name = "raise" -> RaiseProgram(p)
      [] p.name = "propagate" -> PropagateProgram(p)
      [] OTHER -> << >>

Programs ==
    {Program("binary", op, a, b, 0, 0) : op \in BinaryOperators, a \in Operands, b \in Operands}
    \cup {Program("logical", op, a, Nil, 0, 0) : op \in {"or", "and"}, a \in Operands}
    \cup {Program(name, "", a, b, 0, 0) :
            name \in {"shadowBlock", "shadowGlobal", "paramAssign", "local",
                      "returnNested", "returnElse"},
            a \in LiteralValues, b \in LiteralValues}
    \cup {Program(name, "", a, Nil, 0, 0) :
            name \in {"escape", "nestedRead", "paramRead", "returnBare", "returnFor"},
            a \in LiteralValues}
    \cup {Program("returnWhile", "", Num(1), Num(2), n, 0) : n \in 0..MaxIter}
    \cup {Fixed("counter"), Fixed("counterShadow"), Fixed("nestedAssign")}
    \cup {Program(name, "", Nil, Nil, n, m) :
            name \in {"arityFun", "arityAnon", "arityClass", "arityInherit"},
            n \in 0..MaxArity, m \in 0..(MaxArity + 1)}
    \cup {Program(name, "", Nil, Nil, 0, m) :
            name \in {"arityClock", "arityBare"}, m \in 0..(MaxArity + 1)}
    \cup {Program("ternary", "", a, Nil, 0, 0) : a \in Operands}
    \cup {Program("ownInit", op, a, Nil, 0, 0) :
            op \in {"block", "shadow", "function", "global", "ok"}, a \in LiteralValues}
    \cup {Program("redeclare", op, a, Nil, 0, 0) :
            op \in {"varVar", "usedVar", "varFun", "funVar", "param", "function",
                    "global", "inner"},
            a \in LiteralValues}
    \cup {Program("unused", op, a, Nil, 0, 0) :
            op \in {"unused", "assigned", "used", "nestedBlock", "closure", "topBlock",
                    "innerBlock"},
            a \in LiteralValues}
    \cup {Program("conflict", op, a, Nil, 0, 0) :
            op \in {"conflict", "conflictUsed", "other", "otherUsed", "none", "nested"},
            a \in LiteralValues}
    \cup {Program("returnTop", op, a, Nil, 0, 0) :
            op \in {"top", "bare", "block", "if", "function", "after", "nested",
                    "afterNested", "anonymous", "afterAnonymous", "failed"},
            a \in LiteralValues}
    \cup {Program("method", "", Nil, Nil, n, m) :
            n \in 0..(2 ^ MaxChain - 1), m \in 1..MaxChain}
    \cup {Program("property", op, a, Nil, 0, 0) :
            op \in {"field", "last", "shadow", "method", "bound", "inherited", "undefined",
                    "other", "keeps"},
            a \in LiteralValues}
    \cup {Program("construct", op, a, Nil, 0, 0) :
            op \in {"init", "noInit", "tooFew", "tooMany"}, a \in LiteralValues}
    \cup {Program("parse", "", Nil, Nil, 0, 0)}
    \cup {Program("parseAssign", op, Nil, Nil, n, 0) :
            op \in {"variable", "chain", "get", "literal", "grouping", "unary", "binary",
                    "call"},
            n \in 0..MaxNum}
    \cup {Program("for", op, Nil, Nil, n, m) :
            op \in {"expression", "var", "none"}, n \in 0..MaxIter, m \in 0..3}
    \cup {Program("parseCall", "", Nil, Nil, n, 0) : n \in ArgumentCounts}
    \cup {Program("broken", op, Nil, Nil, 0, 0) :
            op \in {"expression", "paren", "semicolon", "block", "later", "arguments",
                    "unclosed", "many", "body", "bodyLater"}}
    \cup {Program("frames", op, a, Nil, 0, 0) :
            op \in {"block", "call", "return"}, a \in LiteralValues}
    \cup {Program("raise", op, a, Nil, 0, 0) :
            op \in {"var", "if", "while"}, a \in LiteralValues}
    \cup {Program("propagate", op, a, Nil, 0, 0) :
            op \in {"init", "get", "set"}, a \in LiteralValues \ {Num(i) : i \in 0..MaxNum}}

-----------------------------------------------------------------------------
(* The run of one program: resolve, then interpret statement by statement. *)

VARIABLES
    program,      \* the descriptor of the program being run
    lexer,        \* the Lexer: source, start, current and line
    now,          \* what the wall clock reads (time.Now().Unix())
    pc,           \* "parsed", "resolved", "done", "panic" or "running"
    locals,       \* Interpreter.locals: node id -> distance
    seen,         \* for each reference resolved, its name and the scope names around it
    stopped,      \* Resolver.scopes as they were when the pass raised its error
    currentFunctionType,  \* Resolver.currentFunctionType as the pass left it
    tokens,       \* the tokens handed to the parser
    expression,   \* the expression the parser built, nil before it has
    statements,   \* the statements of the program, as the parser built them
    passes,       \* what each resolver pass over the program ended with
    current,      \* Parser.current: how many tokens the parser has read
    heap,         \* the Environment frames allocated so far
    instances,    \* the Instance objects allocated so far
    environment,  \* Interpreter.environment: the index of the active frame
    output,       \* the values printed so far
    next,         \* the index of the statement Interpret executes next
    result        \* the error the run ended with, NoError otherwise

vars == <<program, lexer, now, pc, tokens, expression, statements, passes, current, locals, seen, stopped, currentFunctionType,
          heap, instances, environment, output, next, result>>

\* interpreter.New(): the global frame defines clock.
Init ==
    /\ program \in Programs
    /\ lexer = NewLexer(<< >>)
    /\ now \in 0..1
    /\ pc = IF program.name \in ExpressionPrograms \cup StatementPrograms THEN "lexed"
            ELSE "parsed"
    /\ tokens \in Sources(program)
    /\ expression = NoNode
    /\ statements = Statements(program)
    /\ passes = << >>
    /\ current = 0
    /\ locals = EmptyMap
    /\ seen = EmptyMap
    /\ stopped = << >>
    /\ currentFunctionType = "None"
    /\ heap = <<[enclosing |-> 0, values |-> ("clock" :> ClockFunction)]>>
    /\ instances = << >>
    /\ environment = Globals
    /\ output = << >>
    /\ next = 1
    /\ result = NoError

Interpreter ==
    [heap |-> heap, instances |-> instances, environment |-> environment, locals |-> locals,
     output |-> output, now |-> now]

\* NewParser(tokens).parseExpression(), as the parser's test runs it.
ParseExpression ==
    /\ pc = "lexed"
    /\ program.name \in ExpressionPrograms
    /\ LET parsed == parseExpression(NewParser(tokens)) IN
       /\ expression' = parsed.expr
       /\ result' = parsed.err
       /\ current' = parsed.p.current
    /\ pc' = "done"
    /\ UNCHANGED <<program, lexer, now, tokens, statements, passes, locals, seen, stopped,
                   currentFunctionType, heap, instances, environment, output, next>>

\* NewParser(tokens).Parse(): a program that fails to parse is not run.
ParseStatements ==
    /\ pc = "lexed"
    /\ program.name \in StatementPrograms
    /\ LET parsed == Parse(NewParser(tokens)) IN
       /\ statements' = parsed.expr
       /\ result' = parsed.err
       /\ current' = parsed.p.current
       /\ pc' = IF parsed.err # NoError THEN "done" ELSE "parsed"
    /\ UNCHANGED <<program, lexer, now, tokens, expression, passes, locals, seen, stopped,
                   currentFunctionType, heap, instances, environment, output, next>>

\* Resolver.ResolveStatements: each statement in turn, stopping at the first
\* error; a program that fails resolution is never executed.
ResolveStatements ==
    /\ pc = "parsed"
    /\ LET r == ResolveStatementList(statements, 1, NewResolver(locals)) IN
       /\ locals' = r.locals
       /\ seen' = r.seen
       /\ stopped' = IF Failed(r) THEN r.stopped ELSE << >>
       /\ currentFunctionType' = r.currentFunctionType
       /\ IF Failed(r)
          THEN \E e \in r.errs :
                  /\ result' = [k |-> e.k, token |-> e.token, msg |-> e.msg, args |-> << >>]
                  /\ pc' = IF e.k = "panic" THEN "panic" ELSE "done"
          ELSE /\ result' = NoError
               /\ pc' = "resolved"
       /\ passes' = <<[locals |-> locals', result |-> result']>>
    /\ UNCHANGED <<program, lexer, now, tokens, expression, statements, current, heap, instances,
                   environment, output, next>>

\* NewResolver(New()).ResolveStatements(statements) once the run is over: a
\* second pass over the same statements, with a new resolver and a new
\* interpreter.
ResolveAgain ==
    /\ Len(passes) = 1
    /\ pc \in {"done", "panic", "running"}
    /\ LET r == ResolveStatementList(statements, 1, NewResolver(EmptyMap)) IN
       IF Failed(r)
       THEN \E e \in r.errs :
               passes' = Append(passes,
                                [locals |-> r.locals,
                                 result |-> [k |-> e.k, token |-> e.token, msg |-> e.msg,
                                             args |-> << >>]])
       ELSE passes' = Append(passes, [locals |-> r.locals, result |-> NoError])
    /\ UNCHANGED <<program, lexer, now, pc, tokens, expression, statements, current, locals, seen,
                   stopped, currentFunctionType, heap, instances, environment, output, next,
                   result>>

\* One turn of the loop of Interpreter.Interpret.
Interpret ==
    /\ pc = "resolved"
    /\ next <= Len(statements)
    /\ LET res == execute(statements[next], Interpreter) IN
       /\ heap' = res.st.heap
       /\ instances' = res.st.instances
       /\ environment' = res.st.environment
       /\ output' = res.st.output
       /\ result' = res.error
       /\ next' = next + 1
       /\ pc' = IF res.error.k \in {"panic", "running"} THEN res.error.k
                ELSE IF res.error # NoError \/ next = Len(statements) THEN "done"
                ELSE "resolved"
    /\ UNCHANGED <<program, lexer, now, tokens, expression, statements, passes, current, locals,
                   seen, stopped, currentFunctionType>>

Next == ParseExpression \/ ParseStatements \/ ResolveStatements \/ Interpret \/ ResolveAgain

Spec == Init /\ [][Next]_vars

-----------------------------------------------------------------------------
(* Environment on its own: Define and Assign called on the frames of a     *)
(* chain, frame 1 the outermost and each frame enclosed by the one before. *)

\* A chain has at most MaxFrames frames, and at most MaxCalls calls are made.
MaxFrames == 3

MaxCalls == 2

EnvNames == {"a", "b"}

\* The frames a chain may start from: each binds some of the names to 0.
Frame(enclosing, names) == [enclosing |-> enclosing, values |-> [n \in names |-> Num(0)]]

Chains ==
    UNION {{[i \in 1..len |-> Frame(i - 1, bound[i])] : bound \in [1..len -> SUBSET EnvNames]} :
           len \in 1..MaxFrames}

EnvInit ==
    /\ program = Fixed("environment")
    /\ lexer = NewLexer(<< >>)
    /\ now = 0
    /\ pc = "environment"
    /\ tokens = << >>
    /\ expression = NoNode
    /\ statements = << >>
    /\ passes = << >>
    /\ current = 0
    /\ locals = EmptyMap
    /\ seen = EmptyMap
    /\ stopped = << >>
    /\ currentFunctionType = "None"
    /\ heap \in Chains
    /\ instances = << >>
    /\ environment \in 1..Len(heap)
    /\ output = << >>
    /\ next = 0
    /\ result = NoError

\* environment.Assign(name, value)
EnvironmentAssign(name, value) ==
    /\ pc \in {"environment", "defined", "assigned"}
    /\ next < MaxCalls
    /\ LET assigned == EnvAssign(Interpreter, environment, name, value) IN
       /\ heap' = assigned.st.heap
       /\ result' = assigned.error
    /\ pc' = "assigned"
    /\ next' = next + 1
    /\ UNCHANGED <<program, lexer, now, tokens, expression, statements, passes, current, locals, seen,
                   stopped, currentFunctionType, instances, environment, output>>

\* environment.Define(name, value)
EnvironmentDefine(name, value) ==
    /\ pc \in {"environment", "defined", "assigned"}
    /\ next < MaxCalls
    /\ heap' = Define(Interpreter, environment, name, value).heap
    /\ result' = NoError
    /\ pc' = "defined"
    /\ next' = next + 1
    /\ UNCHANGED <<program, lexer, now, tokens, expression, statements, passes, current, locals, seen,
                   stopped, currentFunctionType, instances, environment, output>>

EnvNext ==
    \E name \in EnvNames, value \in {Num(1), Num(2)} :
        EnvironmentAssign(name, value) \/ EnvironmentDefine(name, value)

EnvSpec == EnvInit /\ [][EnvNext]_vars

-----------------------------------------------------------------------------
(* The lexer on its own: Tokens() over every source of at most MaxSource   *)
(* bytes.                                                                  *)

MaxSource == 4

\* A newline, a quote, a slash, a letter, a digit, a dot, an equal sign, and
\* a byte no token starts with.
Bytes == {"\n", "\"", "/", "a", "1", ".", "=", "#"}

Inputs == UNION {[1..len -> Bytes] : len \in 0..MaxSource}

\* lexer.New(input)
LexInit ==
    /\ program = Fixed("lexer")
    /\ lexer \in {NewLexer(input) : input \in Inputs}
    /\ now = 0
    /\ pc = "lexing"
    /\ tokens = << >>
    /\ expression = NoNode
    /\ statements = << >>
    /\ passes = << >>
    /\ current = 0
    /\ locals = EmptyMap
    /\ seen = EmptyMap
    /\ stopped = << >>
    /\ currentFunctionType = "None"
    /\ heap = << >>
    /\ instances = << >>
    /\ environment = 0
    /\ output = << >>
    /\ next = 0
    /\ result = NoError

\* One turn of the loop of Lexer.Tokens: the token that NextToken returns is
\* kept unless it comes with an error or is the EOF token, which end the
\* loop.
Tokens ==
    /\ pc = "lexing"
    /\ ~IsAtEnd(lexer)
    /\ LET t == NextToken(lexer) IN
       /\ lexer' = t.l
       /\ result' = t.err
       /\ tokens' = IF t.err = NoError /\ t.token.type # "EOF" THEN Append(tokens, t.token)
                    ELSE tokens
       /\ pc' = IF t.err # NoError THEN "done"
                ELSE IF t.token.type = "EOF" THEN "lexed"
                ELSE "lexing"
    /\ UNCHANGED <<program, now, expression, statements, passes, current, locals, seen, stopped,
                   currentFunctionType, heap, instances, environment, output, next>>

\* The loop of Lexer.Tokens ends at the end of the source.
TokensReturn ==
    /\ pc = "lexing"
    /\ IsAtEnd(lexer)
    /\ pc' = "lexed"
    /\ UNCHANGED <<program, lexer, now, tokens, expression, statements, passes, current, locals,
                   seen, stopped, currentFunctionType, heap, instances, environment, output,
                   next, result>>

LexNext == Tokens \/ TokensReturn

LexSpec == LexInit /\ [][LexNext]_vars

-----------------------------------------------------------------------------
(* Properties.                                                             *)

\* The run is over: it completed, stopped on an error, or panicked.
Finished == pc \in {"done", "panic", "running"}

\* The falsy values of the language: nil and false.
IsFalsy(v) == v = Nil \/ v = Bool(FALSE)

IsNumber(v) == v.t = "float64"

\* C1: a recorded distance always names an existing frame, the one holding
\* the declaration: no run panics on "Invalid depth", and an assignment to
\* a parameter a (var a = A; fun f(a) { a = B; } f(0); print a;) leaves the
\* global a alone, so A is printed.
C1_DistanceNamesDeclaringFrame ==
    /\ pc = "panic" => result.msg # "Invalid depth"
    /\ program.name = "paramAssign" /\ Finished => result = NoError /\ output = <<program.a>>

\* C2: in a program that passes resolution, every Variable and Assign
\* reference whose name is in some scope of the stack it was resolved under
\* has, as its recorded distance, the number of scopes between the innermost
\* scope and the nearest scope holding the name; a reference whose name is in
\* no scope has no recorded distance.
C2_DistanceIsNearestScope ==
    pc = "resolved" =>
        \A id \in DOMAIN seen :
            LET scopes == seen[id].scopes
                hits == {i \in 1..Len(scopes) : seen[id].name \in scopes[i]}
            IN IF hits = {} THEN id \notin DOMAIN locals
               ELSE /\ id \in DOMAIN locals
                    /\ locals[id] = Len(scopes) - Max(hits)

\* C3: the counter closure (fun make() { var x = 0; fun inc() { x = x + 1;
\* return x; } return inc; } var f = make(); print f(); print f();) keeps its
\* captured frame across calls: the program prints 1, then 2.  With a global
\* x = 2 beside it, inc() inside make prints 1, make's x reads 1, and the
\* global x still reads 2.
C3_ClosureKeepsItsFrame ==
    /\ program.name = "counter" /\ Finished => result = NoError /\ output = <<Num(1), Num(2)>>
    /\ program.name = "counterShadow" /\ Finished =>
           result = NoError /\ output = <<Num(1), Num(1), Num(2)>>

\* C4: a variable declared in a nested block changes no binding of the same
\* name in an enclosing frame and is gone when the block ends:
\* { var a = A; { var a = B; } print a; } prints A, with A and B each in
\* its own frame and nothing in the global frame;
\* var a = A; { var a = B; print a; } print a; prints B, then A;
\* { var a = A; } print a; fails with "Undefined variable a".
C4_BlockShadowing ==
    /\ program.name = "shadowBlock" /\ Finished =>
           /\ result = NoError
           /\ output = <<program.a>>
           /\ "a" \notin DOMAIN heap[Globals].values
           /\ heap[2].values = ("a" :> program.a)
           /\ heap[3].values = ("a" :> program.b)
    /\ program.name = "shadowGlobal" /\ Finished =>
           /\ result = NoError
           /\ output = <<program.b, program.a>>
           /\ heap[Globals].values["a"] = program.a
           /\ heap[2].values = ("a" :> program.b)
    /\ program.name = "escape" /\ Finished =>
           /\ result.k = "RuntimeError"
           /\ result.msg = "Undefined variable %s"
           /\ result.args = <<"a">>
           /\ output = << >>
           /\ "a" \notin DOMAIN heap[Globals].values

C4_Witness ==
    /\ program.name = "shadowBlock"
    /\ program.a # program.b
    /\ pc = "done"
    /\ output = <<program.a>>
    /\ heap[3].values = ("a" :> program.b)

\* C5: a return inside nested blocks and if/else branches of a function body
\* stops every later statement of the body, and the call yields the returned
\* value, nil when no return ran or the return has no value:
\* fun f() { { if (A) { return B; } print 1; } print 2; } print f();
\* fun f() { if (A) print 1; else { { return B; } print 2; } print 0; } print f();
\* fun f() { if (A) { return; } print 1; } print f();
C5_ReturnStopsTheBody ==
    /\ program.name = "returnNested" /\ Finished =>
           /\ result = NoError
           /\ output = IF IsFalsy(program.a) THEN <<Num(1), Num(2), Nil>> ELSE <<program.b>>
    /\ program.name = "returnElse" /\ Finished =>
           /\ result = NoError
           /\ output = IF IsFalsy(program.a) THEN <<program.b>> ELSE <<Num(1), Num(0), Nil>>
    /\ program.name = "returnBare" /\ Finished =>
           /\ result = NoError
           /\ output = IF IsFalsy(program.a) THEN <<Num(1), Nil>> ELSE <<Nil>>

\* C6: a return inside a while body stops the loop and the call yields the
\* returned value: var i = 0; fun f() { while (i < N) { i = i + 1; return 1; }
\* return 2; } print f(); print i; prints 1 and 1 when N > 0, 2 and 0 when
\* N = 0; fun f() { for (; true;) { return A; } } print f(); prints A.
C6_ReturnStopsTheLoop ==
    /\ program.name = "returnWhile" /\ Finished =>
           /\ result = NoError
           /\ output = IF program.n = 0 THEN <<Num(2), Num(0)>> ELSE <<Num(1), Num(1)>>
    /\ program.name = "returnFor" /\ Finished => result = NoError /\ output = <<program.a>>

\* The programs that call a callable of arity program.n with program.m
\* arguments.
ArityPrograms == {"arityFun", "arityAnon", "arityClass", "arityInherit", "arityClock", "arityBare"}

SameValue(a, b) ==
    \/ a = Nil /\ b = Nil
    \/ /\ a.t \in {"float64", "string", "bool"}
       /\ a = b

\* C8: print a == b; and print a != b; never fail; == prints true exactly
\* when a and b are the same value, and != prints the negation of that.
C8_EqualityAndItsNegation ==
    program.name = "binary" /\ program.op \in {"==", "!="} /\ Finished =>
        /\ result = NoError
        /\ output = <<Bool(IF program.op = "==" THEN SameValue(program.a, program.b)
                           ELSE ~SameValue(program.a, program.b))>>

\* C9: for numbers a and b, print a + b; prints the sum; print a / b;
\* prints the quotient when b is not 0, and fails with a RuntimeError,
\* printing nothing, when b is 0.
C9_SumAndQuotient ==
    /\ program.name = "binary"
    /\ program.op \in {"+", "/"}
    /\ IsNumber(program.a)
    /\ IsNumber(program.b)
    /\ Finished
    => IF program.op = "+"
       THEN /\ result = NoError
            /\ Len(output) = 1
            /\ IsNumber(output[1])
            /\ output[1].d > 0
            /\ output[1].n * program.a.d * program.b.d =
                   (program.a.n * program.b.d + program.b.n * program.a.d) * output[1].d
       ELSE IF program.b.n = 0
       THEN /\ pc = "done"
            /\ result.k = "RuntimeError"
            /\ output = << >>
       ELSE /\ result = NoError
            /\ Len(output) = 1
            /\ IsNumber(output[1])
            /\ output[1].d > 0
            /\ output[1].n * program.a.d * program.b.n =
                   program.a.n * program.b.d * output[1].d

C9_Witness ==
    /\ program.name = "binary"
    /\ program.op = "/"
    /\ program.a = Num(1)
    /\ program.b = Num(0)
    /\ pc = "done"
    /\ result.k = "RuntimeError"
    /\ result.msg = "division by zero is not allowed"

\* C10: in var g = 0; print a or (g = 1); print g; the right operand runs
\* exactly when a is falsy (nil or false), and with and exactly when a is
\* truthy; when it runs the expression's value is its value and g is 1, when
\* it does not the expression's value is a and g is still 0.
C10_ShortCircuit ==
    program.name = "logical" /\ Finished =>
        /\ result = NoError
        /\ output = IF (program.op = "or") = IsFalsy(program.a)
                    THEN <<Num(1), Num(1)>>
                    ELSE <<program.a, Num(0)>>

C10_Witness ==
    /\ program.name = "logical"
    /\ program.op = "or"
    /\ program.a = Num(0)
    /\ pc = "done"
    /\ output = <<Num(0), Num(0)>>

\* C11: var g = 0; print A ? (g = 1) : (g = 2); print g; resolves and runs
\* without a crash, evaluating exactly one branch: it prints 1 and 1 when A
\* is truthy, 2 and 2 when A is falsy.
C11_TernaryEvaluatesOneBranch ==
    program.name = "ternary" /\ Finished =>
        /\ result = NoError
        /\ output = IF IsFalsy(program.a) THEN <<Num(2), Num(2)>> ELSE <<Num(1), Num(1)>>

\* The pass stopped on the ResolveError with this message about this name.
ResolveFailed(name, message) ==
    /\ pc = "done"
    /\ result = [k |-> "ResolveError", token |-> name, msg |-> message, args |-> << >>]
    /\ output = << >>

\* The pass went through: whatever the run ends with, it is no ResolveError.
Resolved == pc # "parsed" /\ result.k # "ResolveError"

C13_Redeclaration ==
    program.name = "redeclare" /\ pc # "parsed" =>
        IF program.op \in {"global", "inner"}
        THEN /\ Resolved
             /\ Finished =>
                    /\ result = NoError
                    /\ output = IF program.op = "global" THEN <<Num(2)>>
                                ELSE <<Num(2), program.a>>
        ELSE /\ ResolveFailed("a", "Already a variable with this name %s in this scope.")
             /\ Len(stopped) = (IF program.op = "function" THEN 2 ELSE 1)
             /\ stopped[Len(stopped)] =
                    ("a" :> [initialized |-> TRUE, used |-> (program.op = "usedVar")])

C13_Witness ==
    /\ program.name = "redeclare"
    /\ program.op = "usedVar"
    /\ ResolveFailed("a", "Already a variable with this name %s in this scope.")
    /\ stopped = <<("a" :> [initialized |-> TRUE, used |-> TRUE])>>

\* C14: a local a declared directly in the body of f fails resolution with
\* "Local variable a is declared but never used." exactly when nothing reads
\* it: declared only, or only assigned.  When the body, a block nested in the
\* body or a function nested in the body prints a, the program resolves and
\* prints A; an unread a of a top-level block, or of a block nested in the
\* body, is exempt and the program resolves and prints nothing.
C14_UnusedLocal ==
    program.name = "unused" /\ pc # "parsed" =>
        IF program.op \in {"unused", "assigned"}
        THEN ResolveFailed("a", "Local variable %s is declared but never used.")
        ELSE /\ Resolved
             /\ Finished =>
                    /\ result = NoError
                    /\ output = IF program.op \in {"used", "nestedBlock", "closure"}
                                THEN <<program.a>> ELSE << >>

\* C15: when the body of f(a) declares a local a, resolution fails with
\* "Local variable a conflicts with parameter.", whether or not a is read and
\* whatever other local, read or unread, the body declares beside it.  When no
\* local of the body has a parameter's name (a body that declares b only, or a
\* block nested in the body of a parameterless f that redeclares the body's
\* x), the program resolves and prints its locals.
C15_ParameterConflict ==
    program.name = "conflict" /\ pc # "parsed" =>
        IF program.op \in {"conflict", "conflictUsed", "other", "otherUsed"}
        THEN ResolveFailed("a", "Local variable %s conflicts with parameter.")
        ELSE /\ Resolved
             /\ Finished =>
                    /\ result = NoError
                    /\ output = IF program.op = "none" THEN <<program.a>>
                                ELSE <<Num(1), program.a>>

\* C16: a return outside every function body (alone, bare, in a block, in an
\* if, or after a function, a function holding a nested function, or an
\* anonymous function was resolved) fails resolution with "Can't return from
\* top-level code."; a return in the body of a function, of a nested function
\* and of its enclosing function after it, or of an anonymous function
\* resolves, and the call prints A.  However the pass ends, also on an error
\* raised inside a function body, it leaves the function-context flag at None.
C16_TopLevelReturn ==
    program.name = "returnTop" /\ pc # "parsed" =>
        /\ currentFunctionType = "None"
        /\ CASE program.op \in {"function", "nested", "anonymous"} ->
                   /\ Resolved
                   /\ Finished => result = NoError /\ output = <<program.a>>
             [] program.op = "failed" ->
                   ResolveFailed("a", "Can't read local variable in its own initializer.")
             [] OTHER -> ResolveFailed("return", "Can't return from top-level code.")

C16_Witness ==
    /\ program.name = "returnTop"
    /\ program.op = "afterNested"
    /\ ResolveFailed("return", "Can't return from top-level code.")
    /\ currentFunctionType = "None"

UndefinedProperty(name, class) ==
    /\ pc = "done"
    /\ result = NewRuntimeError(name, "undefined property '%s' in instance of class '%s'",
                                <<name, class>>)

ThisFrames == {e \in DOMAIN heap : "this" \in DOMAIN heap[e].values}

CallFrames(e) == {c \in DOMAIN heap : heap[c].enclosing = e}

InstanceValue(ref) == [t |-> "*interpreter.Instance", ref |-> ref]

One == Literal(Num(1))

Two == Literal(Num(2))

Three == Literal(Num(3))

Four == Literal(Num(4))

C21_AssignmentTarget ==
    program.name = "parseAssign" /\ pc = "done" =>
        LET N == Literal(Num(program.n)) IN
        CASE program.op = "variable" ->
                 result = NoError /\ current = Len(tokens) /\ expression = Assign(1, "a", N)
          [] program.op = "chain" ->
                 /\ result = NoError
                 /\ current = Len(tokens)
                 /\ expression = Assign(1, "a", Assign(3, "b", N))
          [] program.op = "get" ->
                 /\ result = NoError
                 /\ current = Len(tokens)
                 /\ expression = SetExpression(Variable(1, "a"), "b", N)
          [] OTHER ->
                 /\ result.k = "error"
                 /\ result.msg = "invalid assignment target %T"
                 /\ expression = NoNode

\* The for statement of the program as Block[init, While(cond, Block[body,
\* ExpressionStatement(incr)])], each node numbered by the place of its token.
Desugared(p) ==
    LET c == 8 + Len(InitializerTokens(p))
        s == c + Len(ConditionTokens(p)) + 1
        zero == Literal(Num(0))
        initializer == IF p.op = "var" THEN VarStatement("i", zero)
                       ELSE ExpressionStatement(Assign(8, "i", zero))
        condition == IF HasCondition(p) THEN Binary(Variable(c, "i"), "<", Literal(Num(p.n)))
                     ELSE Literal(Bool(TRUE))
        increment == Assign(s, "i", Binary(Variable(s + 2, "i"), "+", Literal(Num(1))))
        body == PrintStatement(Variable(s + Len(IncrementTokens(p)) + 2, "i"))
        stepped == IF HasIncrement(p) THEN BlockStatement(<<body, ExpressionStatement(increment)>>)
                   ELSE body
        while == WhileStatement(condition, stepped)
    IN IF p.op = "none" THEN while ELSE BlockStatement(<<initializer, while>>)

C23_ArgumentCap ==
    program.name = "parseCall" /\ pc = "done" =>
        IF program.n <= 255
        THEN /\ result = NoError
             /\ expression = Call(Variable(1, "f"), [i \in 1..program.n |-> Literal(Num(1))])
        ELSE /\ result.k = "error"
             /\ result.msg = "can't have more than 255 arguments., got %d"

\* The error of the first construct that cannot be parsed in each program.
FirstParseError(p) ==
    CASE p.op \in {"expression", "block", "later", "bodyLater"} ->
            Errorf("expected expression got %s", <<";">>)
      [] p.op = "paren" -> Errorf("expected ) but got token %s", <<";">>)
      [] p.op \in {"semicolon", "body"} ->
            Errorf("%s got token %s", <<"expect ; after value.", "EOF">>)
      [] p.op = "arguments" ->
            Errorf("%s got token %s", <<"expect ) after function arguments", "NUMBER">>)
      [] p.op = "unclosed" ->
            Errorf("%s got token %s", <<"expect ) after function arguments", ";">>)
      [] p.op = "many" ->
            Errorf("can't have more than 255 arguments., got %d", <<MaxArgumentCount + 1>>)

\* C24: when an expression, a statement of a block, an argument list, a
\* closing parenthesis, a semicolon or the body of a loop cannot be parsed,
\* Parse returns the error of that construct and no statements, and the
\* program is not run.
C24_FirstParseErrorAborts ==
    program.name = "broken" /\ pc # "lexed" =>
        /\ pc = "done"
        /\ statements = << >>
        /\ result = FirstParseError(program)

\* C25: the two resolver passes over a program, each with a new resolver,
\* record the same distances and end alike: both without an error, or both
\* with the same one.
C25_ResolveTwice ==
    Len(passes) = 2 => passes[1] = passes[2]

\* The frames of the chain of frame e that bind name, e itself included.
Holders(e, name) == {i \in 1..e : name \in DOMAIN heap[i].values}

\* C26: environment.Assign(name, value) creates no binding. With name bound
\* in the chain, the binding of the nearest frame that holds it takes the
\* value and nothing else changes; with name unbound in the whole chain the
\* call returns the RuntimeError "Undefined variable" and every frame is as
\* it was.
C26_AssignCreatesNoBinding ==
    [][\A name \in EnvNames, value \in {Num(1), Num(2)} :
           EnvironmentAssign(name, value) =>
               /\ \A i \in 1..Len(heap) : heap[i].enclosing = i - 1
               /\ Len(heap') = Len(heap)
               /\ \A i \in 1..Len(heap) :
                      /\ heap'[i].enclosing = heap[i].enclosing
                      /\ DOMAIN heap'[i].values = DOMAIN heap[i].values
                      /\ \A n \in DOMAIN heap[i].values :
                             heap'[i].values[n] =
                                 IF n = name /\ Holders(environment, name) # {}
                                    /\ i = Max(Holders(environment, name))
                                 THEN value ELSE heap[i].values[n]
               /\ result' = IF Holders(environment, name) = {}
                            THEN NewRuntimeError(name, "Undefined variable %s", <<name>>)
                            ELSE NoError]_vars

\* Assign on the innermost of three frames has written a, which only the
\* two outer frames bind, to the middle one.
C26_Witness ==
    /\ pc = "assigned" /\ next = 1 /\ result = NoError
    /\ environment = 3
    /\ Holders(3, "a") = {1, 2}
    /\ heap[2].values["a"] = Num(1)
    /\ heap[1].values["a"] = Num(0)

\* C27: whenever Interpret is between two statements or has returned, the
\* active environment is the global frame: each block and each call has put
\* back the frame it found, whether it ended normally, on a RuntimeError or
\* on a return. A block in a block, and a block in a called function, that
\* negate A end on the RuntimeError of the negation unless A is a number,
\* and then the statements after them run.
C27_EnvironmentRestored ==
    /\ pc \in {"resolved", "done"} => environment = Globals
    /\ program.name = "frames" /\ Finished =>
           /\ pc = "done"
           /\ IF IsNumber(program.a)
              THEN /\ result = NoError
                   /\ output = <<Float(-program.a.n, program.a.d), Num(0)>>
              ELSE /\ result.k = "RuntimeError"
                   /\ output = << >>

\* The call of f ended on a RuntimeError raised two blocks deep, and the
\* global frame is the active one.
C27_Witness ==
    /\ program.name = "frames" /\ program.op = "call" /\ pc = "done"
    /\ result.k = "RuntimeError"
    /\ Len(heap) >= 3
    /\ environment = Globals

\* C28: when -A, A not a number, is the initializer of a var, the condition
\* of an if or the condition of a while, Interpret returns the RuntimeError
\* of the negation with its token: the run does not panic, a is not
\* defined, and the statements after it are not executed.
C28_StatementReturnsRuntimeError ==
    program.name = "raise" /\ ~IsNumber(program.a) /\ Finished =>
        /\ pc = "done"
        /\ result = NewRuntimeError("-", "expected a number for unary minus, got %T",
                                    <<TypeName(program.a)>>)
        /\ "a" \notin DOMAIN heap[Globals].values
        /\ output = << >>

\* C29: the RuntimeError of -A, A not a number, raised while init runs is
\* the result of the call K(), and raised by the receiver of a property
\* read or write it is the result of that expression: the run ends with
\* that error, nothing printed.
C29_FirstErrorPropagates ==
    program.name = "propagate" /\ Finished =>
        /\ pc = "done"
        /\ result = NewRuntimeError("-", "expected a number for unary minus, got %T",
                                    <<TypeName(program.a)>>)
        /\ output = << >>

\* The newlines among the first n bytes of the source.
Newlines(n) == Cardinality({i \in 1..n : lexer.source[i] = "\n"})

\* C30: when NextToken returns, 0 <= start <= current <= len(source), and
\* the lexer's line is 1 plus the number of newlines among the bytes read so
\* far, those inside a string and the one that ends a comment included; the
\* token it returns carries that line, the one its lexeme ends on; and the
\* call has read at least one byte.
C30_LineCountsNewlines ==
    [][lexer' # lexer =>
           /\ 0 <= lexer'.start
           /\ lexer'.start <= lexer'.current
           /\ lexer'.current <= Len(lexer.source)
           /\ lexer'.current > lexer.current
           /\ lexer'.line = 1 + Newlines(lexer'.current)
           /\ Len(tokens') > Len(tokens) => tokens'[Len(tokens')].line = lexer'.line]_vars

\* "\n" followed by a newline: the string token is on line 2, where it
\* ends, and the lexer, at the end of the source, on line 3.
C30_Witness ==
    /\ pc = "lexed"
    /\ lexer.source = <<"\"", "\n", "\"", "\n">>
    /\ lexer.current = 4
    /\ lexer.line = 3
    /\ Len(tokens) = 1
    /\ tokens[1].type = "STRING" /\ tokens[1].line = 2

====
